---- MODULE Spec2Model ----
(***************************************************************************)
(* Webhook relay handlers of weiben1989/webhook.                           *)
(*                                                                         *)
(* The repository holds several variants of one serverless handler:        *)
(*   "webhook"  src/api/webhook.js                                         *)
(*   "p000"     src/unnamed/part_000                                       *)
(*   "p001"     src/unnamed/part_001                                       *)
(*   "p004"     src/unnamed/part_004                                       *)
(*   "p005"     src/unnamed/part_005                                       *)
(*                                                                         *)
(* Text is a sequence of characters.  A character is a short ASCII string  *)
(* naming it: "0".."9", ":" and "fw:" (the full-width colon), "," and      *)
(* "fw,", " ", "nl" (line feed), "(" ")" "fw(" "fw)", "!" "fw!", and the   *)
(* CJK characters by their pinyin: "biao" "di" is the label the handlers   *)
(* look for, "jia" "ge" the price label, and so on.                        *)
(***************************************************************************)
EXTENDS Naturals, Sequences, FiniteSets, TLC

(***************************************************************************)
(* Bounds of the model.                                                    *)
(***************************************************************************)
\* longest code string handed to the market classification
MaxCodeLen == 7

(***************************************************************************)
(* Characters and character classes of the regular expressions.            *)
(***************************************************************************)
Digits == {"0", "1", "2", "3", "4", "5", "6", "7", "8", "9"}
\* \s of a JavaScript regular expression (the members the model uses)
Space == {" ", "nl"}
\* [:fw:] : the ASCII and the full-width colon
Colons == {":", "fw:"}
\* [,fw,]
Commas == {",", "fw,"}
\* the characters [^\s,fw,!fw!] excludes
StockStop == Space \cup Commas \cup {"!", "fw!"}
\* \w of a JavaScript regular expression (the members the model uses)
WordChars == Digits \cup {"_", "L", "O", "K", "U", "P", "A", "B", "x"}
\* the label the handlers look for
LABEL == <<"biao", "di">>
\* a falsy lookup result: null, undefined and "" are only ever tested for truth
NULL == <<>>

(***************************************************************************)
(* String helpers: what String.prototype and RegExp do on such text.       *)
(***************************************************************************)
Min(S) == CHOOSE m \in S : \A y \in S : m <= y

\* p occurs in s at position i
StartsWithAt(s, i, p) ==
  /\ i >= 1
  /\ i + Len(p) - 1 <= Len(s)
  /\ \A k \in 1..Len(p) : s[i + k - 1] = p[k]

\* the first position >= i whose character is outside cls (Len(s)+1 at the end):
\* where a greedy cls* that starts at i stops
RunEnd(s, i, cls) ==
  Min({j \in i..(Len(s) + 1) : j = Len(s) + 1 \/ s[j] \notin cls})

\* where a greedy cls{0,max} that starts at i stops
RunEndMax(s, i, cls, max) ==
  LET e == RunEnd(s, i, cls) IN IF e - i > max THEN i + max ELSE e

\* String.prototype.indexOf(p, from), 1-based; 0 when p does not occur
IndexOf(s, p, from) ==
  LET hits == {i \in from..(Len(s) + 1) : StartsWithAt(s, i, p)}
  IN IF hits = {} THEN 0 ELSE Min(hits)

\* String.prototype.includes
Includes(s, p) == IndexOf(s, p, 1) # 0

\* s.slice(i - 1): the text from position i on
From(s, i) == SubSeq(s, i, Len(s))

\* String.prototype.trim
Trim(s) ==
  LET keep == {i \in 1..Len(s) : s[i] \notin Space}
  IN IF keep = {} THEN <<>>
     ELSE SubSeq(s, Min(keep), CHOOSE m \in keep : \A y \in keep : y <= m)

AllDigits(s) == \A i \in 1..Len(s) : s[i] \in Digits

(***************************************************************************)
(* Market classification, the head of getChineseStockName.                 *)
(***************************************************************************)
\* src/api/webhook.js: /^\d{1,5}$/ is hk; /^\d{6}$/ with [56] sh, [013] sz
marketPrefix_webhook(code) ==
  IF Len(code) >= 1 /\ Len(code) <= 5 /\ AllDigits(code) THEN "hk"
  ELSE IF Len(code) = 6 /\ AllDigits(code)
       THEN IF code[1] \in {"5", "6"} THEN "sh"
            ELSE IF code[1] \in {"0", "1", "3"} THEN "sz"
            ELSE "none"
       ELSE "none"

\* part_000, part_005: length <= 5 and /^\d+$/ is hk; length 6: 6,5 sh; 0,3,1 sz
marketPrefix_p000(code) ==
  IF Len(code) <= 5 /\ Len(code) >= 1 /\ AllDigits(code) THEN "hk"
  ELSE IF Len(code) = 6 /\ AllDigits(code)
       THEN IF code[1] = "6" \/ code[1] = "5" THEN "sh"
            ELSE IF code[1] = "0" \/ code[1] = "3" \/ code[1] = "1" THEN "sz"
            ELSE "none"
       ELSE "none"

\* part_001: startsWith('6') is sh, startsWith('0') or ('3') is sz, nothing else
marketPrefix_p001(code) ==
  IF Len(code) >= 1 /\ code[1] = "6" THEN "sh"
  ELSE IF Len(code) >= 1 /\ (code[1] = "0" \/ code[1] = "3") THEN "sz"
  ELSE "none"

\* part_004: as webhook.js, with [568] for sh
marketPrefix_p004(code) ==
  IF Len(code) >= 1 /\ Len(code) <= 5 /\ AllDigits(code) THEN "hk"
  ELSE IF Len(code) = 6 /\ AllDigits(code)
       THEN IF code[1] \in {"5", "6", "8"} THEN "sh"
            ELSE IF code[1] \in {"0", "1", "3"} THEN "sz"
            ELSE "none"
       ELSE "none"

marketPrefix(v, code) ==
  CASE v = "webhook" -> marketPrefix_webhook(code)
    [] v = "p000"    -> marketPrefix_p000(code)
    [] v = "p005"    -> marketPrefix_p000(code)
    [] v = "p001"    -> marketPrefix_p001(code)
    [] v = "p004"    -> marketPrefix_p004(code)

(***************************************************************************)
(* The label followed by a code: label \s* [:fw:] \s* \d{minD,maxD}.       *)
(* The classes are disjoint, so the greedy match is the only match.        *)
(***************************************************************************)
NoMatch == [ok |-> FALSE, cs |-> 0, ce |-> 0]

\* the match that starts at i: cs is where the digits start, ce where they end
LabelCodeAt(s, i, minD, maxD) ==
  IF ~StartsWithAt(s, i, LABEL) THEN NoMatch
  ELSE LET j1 == RunEnd(s, i + Len(LABEL), Space)
       IN IF j1 > Len(s) \/ s[j1] \notin Colons THEN NoMatch
          ELSE LET j2 == RunEnd(s, j1 + 1, Space)
                   e  == RunEndMax(s, j2, Digits, maxD)
               IN IF e - j2 < minD THEN NoMatch
                  ELSE [ok |-> TRUE, cs |-> j2, ce |-> e]

\* the leftmost match at or after i (String.prototype.match without /g)
FirstLabelCode(s, minD, maxD) ==
  LET hits == {i \in 1..Len(s) : LabelCodeAt(s, i, minD, maxD).ok}
  IN IF hits = {} THEN [ok |-> FALSE, at |-> 0, cs |-> 0, ce |-> 0]
     ELSE LET i == Min(hits)
              m == LabelCodeAt(s, i, minD, maxD)
          IN [ok |-> TRUE, at |-> i, cs |-> m.cs, ce |-> m.ce]

\* the distinct members of a sequence, in the order of their first occurrence
\* ([...new Set(a)])
Uniq(a) ==
  LET first == {i \in 1..Len(a) : \A j \in 1..(i - 1) : a[j] # a[i]}
      F[k \in 0..Len(a)] ==
        IF k = 0 THEN <<>>
        ELSE IF k \in first THEN Append(F[k - 1], a[k]) ELSE F[k - 1]
  IN F[Len(a)]

\* does the text hold the digit string c
ContainsCode(s, c) == Includes(s, c)

(***************************************************************************)
(* src/api/webhook.js: replaceTargets and resolveTargets.                  *)
(***************************************************************************)
\* "__LOOKUP__" and the closing "__"
LOOKUP_OPEN == <<"_", "_", "L", "O", "O", "K", "U", "P", "_", "_">>
LOOKUP_CLOSE == <<"_", "_">>

RECURSIVE replaceTargetsFrom(_, _)
replaceTargetsFrom(s, i) ==
  IF i > Len(s) THEN <<>>
  ELSE LET m == LabelCodeAt(s, i, 1, 6)
       IN IF m.ok
          THEN SubSeq(s, i, m.cs - 1) \o LOOKUP_OPEN \o SubSeq(s, m.cs, m.ce - 1)
                 \o LOOKUP_CLOSE \o replaceTargetsFrom(s, m.ce)
          ELSE <<s[i]>> \o replaceTargetsFrom(s, i + 1)

\* body.replace(/(label\s*[:fw:]\s*)(\d{1,6})/g, g1 + "__LOOKUP__" + code + "__")
replaceTargets(body) == replaceTargetsFrom(body, 1)

\* /__LOOKUP__(\d{1,6})__/ at i: cs, ce delimit the digits
PlaceholderAt(s, i) ==
  IF ~StartsWithAt(s, i, LOOKUP_OPEN) THEN NoMatch
  ELSE LET j == i + Len(LOOKUP_OPEN)
           e == RunEndMax(s, j, Digits, 6)
       IN IF e > j /\ StartsWithAt(s, e, LOOKUP_CLOSE)
          THEN [ok |-> TRUE, cs |-> j, ce |-> e]
          ELSE NoMatch

RECURSIVE placeholderCodesFrom(_, _)
placeholderCodesFrom(s, i) ==
  IF i > Len(s) THEN <<>>
  ELSE LET m == PlaceholderAt(s, i)
       IN IF m.ok
          THEN <<SubSeq(s, m.cs, m.ce - 1)>>
                 \o placeholderCodesFrom(s, m.ce + Len(LOOKUP_CLOSE))
          ELSE placeholderCodesFrom(s, i + 1)

\* resolveTargets without the Set: one lookup per occurrence
resolveTargetsCodes_noDedup(text) == placeholderCodesFrom(text, 1)

\* resolveTargets, step 1: the codes marked for lookup, deduplicated
resolveTargetsCodes(text) == Uniq(placeholderCodesFrom(text, 1))

\* name(code) in ASCII parentheses
NameCode(name, code) == name \o <<"(">> \o code \o <<")">>

RECURSIVE resolveTargetsFrom(_, _, _)
resolveTargetsFrom(s, i, nameMap) ==
  IF i > Len(s) THEN <<>>
  ELSE LET m == PlaceholderAt(s, i)
       IN IF m.ok
          THEN LET code == SubSeq(s, m.cs, m.ce - 1)
                   name == nameMap[code]
               IN (IF name # NULL THEN NameCode(name, code) ELSE code)
                    \o resolveTargetsFrom(s, m.ce + Len(LOOKUP_CLOSE), nameMap)
          ELSE <<s[i]>> \o resolveTargetsFrom(s, i + 1, nameMap)

\* resolveTargets, step 4: every placeholder becomes name(code), or the code
resolveTargetsReplace(text, nameMap) == resolveTargetsFrom(text, 1, nameMap)

(***************************************************************************)
(* part_004: resolveStockNames.                                            *)
(***************************************************************************)
\* /(label\s*[:fw:]\s*)(\d{1,6})\b/ at i: the digits must end at a word boundary
LookupRegexAt(s, i) ==
  LET m == LabelCodeAt(s, i, 1, 6)
  IN IF m.ok /\ (m.ce > Len(s) \/ s[m.ce] \notin WordChars) THEN m ELSE NoMatch

RECURSIVE lookupRegexCodesFrom(_, _)
lookupRegexCodesFrom(s, i) ==
  IF i > Len(s) THEN <<>>
  ELSE LET m == LookupRegexAt(s, i)
       IN IF m.ok
          THEN <<SubSeq(s, m.cs, m.ce - 1)>> \o lookupRegexCodesFrom(s, m.ce)
          ELSE lookupRegexCodesFrom(s, i + 1)

\* resolveStockNames: codesToLookup
resolveStockNamesCodes(text) == Uniq(lookupRegexCodesFrom(text, 1))

RECURSIVE resolveStockNamesFrom(_, _, _)
resolveStockNamesFrom(s, i, nameMap) ==
  IF i > Len(s) THEN <<>>
  ELSE LET m == LookupRegexAt(s, i)
       IN IF m.ok
          THEN LET code == SubSeq(s, m.cs, m.ce - 1)
                   name == nameMap[code]
               IN (IF name # NULL
                   THEN SubSeq(s, i, m.cs - 1) \o NameCode(name, code)
                   ELSE SubSeq(s, i, m.ce - 1))
                    \o resolveStockNamesFrom(s, m.ce, nameMap)
          ELSE <<s[i]>> \o resolveStockNamesFrom(s, i + 1, nameMap)

\* resolveStockNames: the final text.replace
resolveStockNamesReplace(text, nameMap) == resolveStockNamesFrom(text, 1, nameMap)

(***************************************************************************)
(* part_000 and part_005: processMessage.                                  *)
(***************************************************************************)
NL == <<"nl">>

\* after the code: \s*[,fw,]?\s*(.*) and then remainderPart.replace(/^[,fw,\s]+/, '')
\* for a text without line feed; ce is where the code ends
remainderPart(body, ce) ==
  LET a  == RunEnd(body, ce, Space)
      b  == IF a <= Len(body) /\ body[a] \in Commas THEN a + 1 ELSE a
      c  == RunEnd(body, b, Space)
      g2 == From(body, c)
  IN From(g2, RunEnd(g2, 1, Commas \cup Space))

\* `label:name(code)`, and `label:(code)` when there is no name
formattedStockLine(name, code) ==
  LABEL \o <<":">> \o (IF name # NULL THEN name ELSE <<>>) \o <<"(">> \o code \o <<")">>

\* part_000: /^label\s*[:fw:]\s*(\d{5,6})\s*[,fw,]?\s*(.*)$/ on a text without line feed
singleLineMatch_p000(body) ==
  LET m == LabelCodeAt(body, 1, 5, 6)
  IN IF m.ok /\ ~Includes(body, NL) THEN m ELSE NoMatch

\* [fw(, (] \s* \d{5,6} \s* [), fw)] at p
ParenCodeAt(s, p) ==
  /\ p <= Len(s)
  /\ s[p] \in {"(", "fw("}
  /\ LET q == RunEnd(s, p + 1, Space)
         e == RunEnd(s, q, Digits)
         r == RunEnd(s, e, Space)
     IN /\ e - q \in {5, 6}
        /\ r <= Len(s)
        /\ s[r] \in {")", "fw)"}

\* part_000: /label\s*[:fw:].*?[fw(, (]\s*\d{5,6}\s*[), fw)]/ matches somewhere
alreadyFormattedMatch(s) ==
  \E i \in 1..Len(s) :
    /\ StartsWithAt(s, i, LABEL)
    /\ LET j1 == RunEnd(s, i + Len(LABEL), Space)
       IN /\ j1 <= Len(s)
          /\ s[j1] \in Colons
          /\ \E p \in (j1 + 1)..Len(s) :
               /\ \A k \in (j1 + 1)..(p - 1) : s[k] # "nl"
               /\ ParenCodeAt(s, p)

\* part_000: the code processMessage looks up, if any
processMessageCodes_p000(body) ==
  LET sl == singleLineMatch_p000(body)
      cm == FirstLabelCode(body, 5, 6)
  IN IF sl.ok THEN <<SubSeq(body, sl.cs, sl.ce - 1)>>
     ELSE IF alreadyFormattedMatch(body) THEN <<>>
     ELSE IF cm.ok THEN <<SubSeq(body, cm.cs, cm.ce - 1)>>
     ELSE <<>>

\* part_000: finalContent, given the names of the codes looked up
processMessage_p000(body, nameMap) ==
  LET sl == singleLineMatch_p000(body)
      cm == FirstLabelCode(body, 5, 6)
  IN IF sl.ok
     THEN LET code == SubSeq(body, sl.cs, sl.ce - 1)
          IN formattedStockLine(nameMap[code], code) \o NL \o remainderPart(body, sl.ce)
     ELSE IF alreadyFormattedMatch(body) THEN body
     ELSE IF cm.ok
     THEN LET code == SubSeq(body, cm.cs, cm.ce - 1)
              name == nameMap[code]
              prefix == SubSeq(body, cm.at, cm.cs - 1)
          IN IF name # NULL
             THEN SubSeq(body, 1, cm.at - 1)
                    \o Trim(prefix) \o <<" ">> \o name \o <<"fw(">> \o code \o <<"fw)">>
                    \o From(body, cm.ce)
             ELSE body
     ELSE body

\* part_005: the code processMessage looks up, if any
processMessageCodes_p005(body) ==
  LET m == FirstLabelCode(body, 5, 6)
  IN IF m.ok THEN <<SubSeq(body, m.cs, m.ce - 1)>> ELSE <<>>

\* part_005: finalContent, given the names of the codes looked up
processMessage_p005(body, nameMap) ==
  LET m == FirstLabelCode(body, 5, 6)
  IN IF ~m.ok THEN body
     ELSE LET code == SubSeq(body, m.cs, m.ce - 1)
              line == formattedStockLine(nameMap[code], code)
          IN IF ~Includes(body, NL)
             THEN line \o NL \o remainderPart(body, m.ce)
             ELSE SubSeq(body, 1, m.at - 1) \o line \o From(body, m.ce)

(***************************************************************************)
(* part_001: the handler's own match and replace.                          *)
(***************************************************************************)
LABEL_COLON == LABEL \o <<":">>

\* the end of the line that holds position i: the first line feed at or after i
LineEnd(s, i) == RunEnd(s, i, {s[k] : k \in 1..Len(s)} \ {"nl"})

\* /label:.*\(([^)]+)\)/ at i: the greedy .* stops at the last "(" of the line
\* that has a ")" at least one character later; cs, ce delimit group 1
StockMatchAt(s, i) ==
  IF ~StartsWithAt(s, i, LABEL_COLON) THEN NoMatch
  ELSE LET a == i + Len(LABEL_COLON)
           opens == {p \in a..(LineEnd(s, a) - 1) :
                       /\ s[p] = "("
                       /\ LET q == IndexOf(s, <<")">>, p + 1) IN q > p + 1}
       IN IF opens = {} THEN NoMatch
          ELSE LET p == CHOOSE x \in opens : \A y \in opens : y <= x
               IN [ok |-> TRUE, cs |-> p + 1, ce |-> IndexOf(s, <<")">>, p + 1)]

stockMatch(s) ==
  LET hits == {i \in 1..Len(s) : StockMatchAt(s, i).ok}
  IN IF hits = {} THEN NoMatch ELSE StockMatchAt(s, Min(hits))

\* part_001: the code the handler looks up, if any
handlerCodes_p001(body) ==
  LET m == stockMatch(body)
  IN IF m.ok THEN <<SubSeq(body, m.cs, m.ce - 1)>> ELSE <<>>

\* part_001: finalContent: messageBody.replace(/label:.*?\n/, `label: name (code)\n`)
handlerReplace_p001(body, nameMap) ==
  LET m == stockMatch(body)
  IN IF ~m.ok THEN body
     ELSE LET code == SubSeq(body, m.cs, m.ce - 1)
              name == nameMap[code]
              i    == IndexOf(body, LABEL_COLON, 1)
              e    == LineEnd(body, i + Len(LABEL_COLON))
          IN IF name = NULL \/ e > Len(body) THEN body
             ELSE SubSeq(body, 1, i - 1)
                    \o LABEL_COLON \o <<" ">> \o name \o <<" ", "(">> \o code \o <<")">>
                    \o From(body, e)

(***************************************************************************)
(* src/api/webhook.js: the display layer (detectDirection, icon,           *)
(* stripBullet, splitAlertsGeneric, parseLine, beautifyAlerts).            *)
(***************************************************************************)
\* the first position >= i whose character is in stop: where a greedy [^stop]* stops
RunEndNot(s, i, stop) ==
  Min({j \in i..(Len(s) + 1) : j = Len(s) + 1 \/ s[j] \in stop})

\* the lines of s.split("\n")
SplitLines(s) ==
  LET nls == {i \in 1..Len(s) : s[i] = "nl"}
      n   == Cardinality(nls)
      \* position of the k-th line feed; 0 and Len(s)+1 fence the text
      pos[k \in 0..(n + 1)] ==
        IF k = 0 THEN 0
        ELSE IF k = n + 1 THEN Len(s) + 1
        ELSE Min({i \in nls : i > pos[k - 1]})
  IN [k \in 1..(n + 1) |-> SubSeq(s, pos[k - 1] + 1, pos[k] - 1)]

\* a.filter(Boolean): the non-empty strings of a
FilterNonEmpty(a) ==
  LET F[k \in 0..Len(a)] ==
        IF k = 0 THEN <<>>
        ELSE IF a[k] # <<>> THEN Append(F[k - 1], a[k]) ELSE F[k - 1]
  IN F[Len(a)]

\* a.join(sep)
Join(a, sep) ==
  LET F[k \in 0..Len(a)] ==
        IF k = 0 THEN <<>>
        ELSE IF k = 1 THEN a[1]
        ELSE F[k - 1] \o sep \o a[k]
  IN F[Len(a)]

UPPER == {"A", "B", "D", "E", "F", "G", "H", "I", "K", "L", "N", "O", "P", "R",
          "S", "T", "U", "V", "X", "Y"}
LowerOf(ch) ==
  CASE ch = "A" -> "a" [] ch = "B" -> "b" [] ch = "D" -> "d" [] ch = "E" -> "e"
    [] ch = "F" -> "f" [] ch = "G" -> "g" [] ch = "H" -> "h" [] ch = "I" -> "i"
    [] ch = "K" -> "k" [] ch = "L" -> "l" [] ch = "N" -> "n" [] ch = "O" -> "o"
    [] ch = "P" -> "p" [] ch = "R" -> "r" [] ch = "S" -> "s" [] ch = "T" -> "t"
    [] ch = "U" -> "u" [] ch = "V" -> "v" [] ch = "X" -> "x" [] ch = "Y" -> "y"
    [] OTHER -> ch
\* String.prototype.toLowerCase
toLowerCase(s) == [i \in 1..Len(s) |-> LowerOf(s[i])]

SHORT_WORDS ==
  { <<"kong", "xin", "hao">>, <<"zuo", "kong">>, <<"kong", "dan">>,
    <<"mai4", "xin", "hao">>, <<"s", "h", "o", "r", "t">>, <<"s", "e", "l", "l">>,
    <<"tiao", "cang", "kong">>, <<"zhui", "ji", "kong">> }
LONG_WORDS ==
  { <<"duo", "xin", "hao">>, <<"zuo", "duo">>, <<"duo", "dan">>,
    <<"mai3", "xin", "hao">>, <<"l", "o", "n", "g">>, <<"b", "u", "y">>,
    <<"tiao", "cang", "duo">>, <<"zhui", "ji", "duo">> }
STOP_WORD == <<"zhi3", "sun">>

\* detectDirection with its first two tests exchanged
detectDirection_longFirst(sig) ==
  LET t == toLowerCase(sig)
  IN IF \E w \in LONG_WORDS : Includes(t, w) THEN "long"
     ELSE IF \E w \in SHORT_WORDS : Includes(t, w) THEN "short"
     ELSE IF Includes(t, STOP_WORD) THEN "stop"
     ELSE "neutral"

\* detectDirection: the signal text may be absent (NULL)
detectDirection(sig) ==
  LET t == toLowerCase(sig)
  IN IF \E w \in SHORT_WORDS : Includes(t, w) THEN "short"
     ELSE IF \E w \in LONG_WORDS : Includes(t, w) THEN "long"
     ELSE IF Includes(t, STOP_WORD) THEN "stop"
     ELSE "neutral"

icon(d) ==
  CASE d = "short" -> <<"red", " ", "kong">>
    [] d = "long"  -> <<"green", " ", "duo">>
    [] d = "stop"  -> <<"warn", " ", "zhi3", "sun">>
    [] OTHER       -> <<"blue", " ", "zhong", "xing">>

\* s.replace(/^[\-•\*]\s+/, "").trim()
stripBullet(s) ==
  LET e == RunEnd(s, 2, Space)
  IN IF Len(s) >= 2 /\ s[1] \in {"-", "bullet", "*"} /\ e > 2
     THEN Trim(From(s, e))
     ELSE Trim(s)

\* key \s* [:fw:] at i: the position after the colon, 0 when there is no match
KeyColonAt(s, i, key) ==
  IF ~StartsWithAt(s, i, key) THEN 0
  ELSE LET j1 == RunEnd(s, i + Len(key), Space)
       IN IF j1 <= Len(s) /\ s[j1] \in Colons THEN j1 + 1 ELSE 0

\* /^[-\s]*key\s*[:fw:]/.test(s)
DashKeyTest(s, key) == KeyColonAt(s, RunEnd(s, 1, Space \cup {"-"}), key) # 0

SIGNAL_DETAIL == <<"xin", "hao", "xiang", "qing">>
K_PERIOD == <<"zhou", "qi">>
K_PRICE == <<"jia", "ge">>
K_CURPRICE == <<"dang", "qian", "jia", "ge">>
K_SIGNAL == <<"xin", "hao">>
K_INDICATOR == <<"zhi", "biao">>
\* /^(label|period|price|current price|signal|indicator)\s*[:fw:]/
KV_KEYS == {LABEL, K_PERIOD, K_PRICE, K_CURPRICE, K_SIGNAL, K_INDICATOR}

\* the blocks of the common path: from a label line to the next label line,
\* each joined with ", "; the lines before the first label line are dropped
Blocks(lines) ==
  LET isStart(k) == KeyColonAt(lines[k], 1, LABEL) # 0
      starts == {k \in 1..Len(lines) : isStart(k)}
      n == Cardinality(starts)
      st[j \in 1..n] ==
        IF j = 1 THEN Min(starts) ELSE Min({k \in starts : k > st[j - 1]})
      en(j) == IF j = n THEN Len(lines) ELSE st[j + 1] - 1
  IN [j \in 1..n |-> Join(SubSeq(lines, st[j], en(j)), <<",", " ">>)]

splitAlertsGeneric(text) ==
  LET t == Trim(text)
      raw0 == SplitLines(t)
      lines0 == FilterNonEmpty([k \in 1..Len(raw0) |-> Trim(raw0[k])])
      isKvCard ==
        \/ (Len(lines0) >= 1 /\ lines0[1] = SIGNAL_DETAIL)
        \/ /\ Len(lines0) >= 3
           /\ DashKeyTest(lines0[1], LABEL)
           /\ DashKeyTest(lines0[2], K_PERIOD)
      stripped0 == [k \in 1..Len(lines0) |-> stripBullet(lines0[k])]
      isField(line) == \E key \in KV_KEYS : KeyColonAt(line, 1, key) # 0
      fieldIdx == {k \in 1..Len(lines0) :
                     stripped0[k] # SIGNAL_DETAIL /\ isField(stripped0[k])}
      fields == FilterNonEmpty(
                  [k \in 1..Len(lines0) |-> IF k \in fieldIdx THEN stripped0[k] ELSE <<>>])
      lines == FilterNonEmpty([k \in 1..Len(raw0) |-> stripBullet(raw0[k])])
      blocks == Blocks(lines)
  IN IF t = <<>> THEN <<>>
     ELSE IF isKvCard
          THEN (IF Len(fields) > 0 THEN <<Join(fields, <<",", " ">>)>> ELSE <<t>>)
          ELSE (IF Len(blocks) > 0 THEN blocks ELSE <<stripBullet(t)>>)

\* the characters [^,fw,!fw!] excludes
SignalStop == Commas \cup {"!", "fw!"}

\* /key\s*[:fw:]\s*([^stop]+)/ at i, for a stop class that holds \s: group 1, or NULL
FieldAt(s, i, key, stop) ==
  LET group(a, b, e) == IF a # 0 /\ e > b THEN SubSeq(s, b, e - 1) ELSE NULL
      value(a, b) == group(a, b, RunEndNot(s, b, stop))
      colon(a) == value(a, RunEnd(s, a, Space))
  IN colon(KeyColonAt(s, i, key))

\* group 1 of the leftmost match of /key\s*[:fw:]\s*([^stop]+)/, or NULL
Field(s, key, stop) ==
  LET leftmost(hits) == IF hits = {} THEN NULL ELSE FieldAt(s, Min(hits), key, stop)
  IN leftmost({i \in 1..Len(s) : FieldAt(s, i, key, stop) # NULL})

\* /key\s*[:fw:]\s*([0-9]+)/ at i: group 1, or NULL
DigitsFieldAt(s, i, key) ==
  LET group(a, b, e) == IF a # 0 /\ e > b THEN SubSeq(s, b, e - 1) ELSE NULL
      value(a, b) == group(a, b, RunEnd(s, b, Digits))
      colon(a) == value(a, RunEnd(s, a, Space))
  IN colon(KeyColonAt(s, i, key))

DigitsField(s, key) ==
  LET leftmost(hits) == IF hits = {} THEN NULL ELSE DigitsFieldAt(s, Min(hits), key)
  IN leftmost({i \in 1..Len(s) : DigitsFieldAt(s, i, key) # NULL})

\* /(current price|price)\s*[:fw:]\s*([0-9]+(?:\.[0-9]+)?)/ at i: group 2, or NULL
PriceAt(s, i) ==
  LET group(a, b, e, f) ==
        IF a = 0 \/ e = b THEN NULL
        ELSE IF f > e + 1 THEN SubSeq(s, b, f - 1) ELSE SubSeq(s, b, e - 1)
      fraction(a, b, e) ==
        group(a, b, e, IF e <= Len(s) /\ s[e] = "." THEN RunEnd(s, e + 1, Digits) ELSE e)
      value(a, b) == fraction(a, b, RunEnd(s, b, Digits))
      colon(a) == value(a, RunEnd(s, a, Space))
      either(a1) == colon(IF a1 # 0 THEN a1 ELSE KeyColonAt(s, i, K_PRICE))
  IN either(KeyColonAt(s, i, K_CURPRICE))

Price(s) ==
  LET leftmost(hits) == IF hits = {} THEN NULL ELSE PriceAt(s, Min(hits))
  IN leftmost({i \in 1..Len(s) : PriceAt(s, i) # NULL})

\* /signal\s*[:fw:]\s*([^,fw,!fw!]+)/ at i: group 1, or NULL.  The class holds \s:
\* when nothing but white space precedes the stop, \s* gives back its last character
SignalAt(s, i) ==
  LET group(a, b, e) ==
        IF a = 0 THEN NULL
        ELSE IF e > b THEN SubSeq(s, b, e - 1)
        ELSE IF b > a THEN SubSeq(s, b - 1, b - 1)
        ELSE NULL
      value(a, b) == group(a, b, RunEndNot(s, b, SignalStop))
      colon(a) == value(a, RunEnd(s, a, Space))
  IN colon(KeyColonAt(s, i, K_SIGNAL))

Signal(s) ==
  LET leftmost(hits) == IF hits = {} THEN NULL ELSE SignalAt(s, Min(hits))
  IN leftmost({i \in 1..Len(s) : SignalAt(s, i) # NULL})

\* raw.search(/key\s*[:fw:]/), 1-based; 0 when there is no match
SearchKey(s, key) ==
  LET leftmost(hits) == IF hits = {} THEN 0 ELSE Min(hits)
  IN leftmost({i \in 1..Len(s) : KeyColonAt(s, i, key) # 0})

\* no line feed from position a to the end: where .*$ matches
NoNlFrom(s, a) == \A k \in a..Len(s) : s[k] # "nl"

\* s.replace(/(key1|key2)\s*[:fw:].*$/, "")
CutFromKey(s, keys) ==
  LET cut(hits) == IF hits = {} THEN s ELSE SubSeq(s, 1, Min(hits) - 1)
      tail(a) == a # 0 /\ NoNlFrom(s, a)
  IN cut({i \in 1..Len(s) : \E key \in keys : tail(KeyColonAt(s, i, key))})

\* s.replace(/-?\s*label\s*[:fw:].*$/i, ""): the match starts at the white space
\* before the label, or at the "-" before that white space
CutFromLabel(s) ==
  LET tail(a) == a # 0 /\ NoNlFrom(s, a)
      \* the leftmost start of a match whose label is at l, w the white space before it
      dash(w) == IF w > 1 /\ s[w - 1] = "-" THEN w - 1 ELSE w
      start(l) == dash(Min({x \in 1..l : \A k \in x..(l - 1) : s[k] \in Space}))
      cut(hits) == IF hits = {} THEN s ELSE SubSeq(s, 1, Min({start(l) : l \in hits}) - 1)
  IN cut({l \in 1..Len(s) : tail(KeyColonAt(s, l, LABEL))})

\* s.replace(/^[cls]+/, "")
StripLeading(s, cls) == From(s, RunEnd(s, 1, cls))
\* s.replace(/[cls]+$/, "")
StripTrailing(s, cls) ==
  LET cut(keep) ==
        IF keep = {} THEN <<>>
        ELSE SubSeq(s, 1, CHOOSE m \in keep : \A y \in keep : y <= m)
  IN cut({i \in 1..Len(s) : s[i] \notin cls})

\* parseLine: the free text after the period field, when there is no signal field
signalFallback(raw) ==
  LET segment(idxPeriod, afterPeriod, commaIdx) ==
        IF idxPeriod = 0 THEN raw
        ELSE IF commaIdx # 0 THEN From(afterPeriod, commaIdx + 1)
        ELSE afterPeriod
      comma(idxPeriod, afterPeriod) ==
        segment(idxPeriod, afterPeriod, IndexOf(afterPeriod, <<",">>, 1))
      period(idxPeriod) == comma(idxPeriod, From(raw, idxPeriod))
  IN Trim(CutFromLabel(
       StripTrailing(
         StripLeading(
           CutFromKey(CutFromKey(period(SearchKey(raw, K_PERIOD)), {K_CURPRICE, K_PRICE}),
                      {K_INDICATOR}),
           {"fw,", ",", "-"} \cup Space),
         {"fw,", ",", "!", "-"} \cup Space)))

parseLine(line) ==
  LET fields(raw, sig) ==
        [ stock     |-> Field(raw, LABEL, StockStop),
          period    |-> DigitsField(raw, K_PERIOD),
          price     |-> Price(raw),
          signal    |-> sig,
          indicator |-> Field(raw, K_INDICATOR, StockStop),
          direction |-> detectDirection(sig) ]
      signal(raw, sig0) == fields(raw, IF sig0 # NULL THEN sig0 ELSE signalFallback(raw))
      trimmed(raw) == signal(raw, Signal(raw))
  IN trimmed(Trim(line))

\* a and b of a.filter(p): the members that satisfy p, in order
SelectIdx(a, idx) ==
  LET F[k \in 0..Len(a)] ==
        IF k = 0 THEN <<>>
        ELSE IF k \in idx THEN Append(F[k - 1], a[k]) ELSE F[k - 1]
  IN F[Len(a)]

SEP == <<" ", "mid", " ">>

\* one bullet of beautifyAlerts
bullet(p) ==
  <<"-", " ">> \o icon(p.direction) \o <<"fw|">> \o p.stock
    \o (IF p.period # NULL THEN SEP \o K_PERIOD \o p.period ELSE <<>>)
    \o (IF p.price # NULL THEN SEP \o K_PRICE \o <<" ">> \o p.price ELSE <<>>)
    \o (IF p.signal # NULL THEN SEP \o p.signal ELSE <<>>)
    \o (IF p.indicator # NULL THEN SEP \o K_INDICATOR \o <<" ">> \o p.indicator ELSE <<>>)

\* beautifyAlerts without its "if (!valid.length) return content"
beautifyAlerts_noFallback(content) ==
  LET isValid(p) == p.stock # NULL /\ (p.signal # NULL \/ p.price # NULL)
      render(valid) == Join([k \in 1..Len(valid) |-> bullet(valid[k])], NL)
      filter(parsed) == render(SelectIdx(parsed, {k \in 1..Len(parsed) : isValid(parsed[k])}))
      parse(chunks) == filter([k \in 1..Len(chunks) |-> parseLine(chunks[k])])
  IN parse(splitAlertsGeneric(content))

beautifyAlerts(content) ==
  LET isValid(p) == p.stock # NULL /\ (p.signal # NULL \/ p.price # NULL)
      render(valid) ==
        IF Len(valid) = 0 THEN content
        ELSE Join([k \in 1..Len(valid) |-> bullet(valid[k])], NL)
      filter(parsed) == render(SelectIdx(parsed, {k \in 1..Len(parsed) : isValid(parsed[k])}))
      parse(chunks) == filter([k \in 1..Len(chunks) |-> parseLine(chunks[k])])
  IN parse(splitAlertsGeneric(content))

(***************************************************************************)
(* part_004: beautifyAlerts.                                               *)
(***************************************************************************)
\* where the leftmost match of /key\s*[:fw:]\s*[^\s,fw,!fw!]+/ for a key of keys
\* starts and ends; at = 0 when there is none
FieldSpan(s, keys) ==
  LET span(i, b) == [at |-> i, end |-> RunEndNot(s, b, StockStop)]
      \* the alternative that matches at i: the longer key when both do
      longest(i, ks) ==
        span(i, RunEnd(s, KeyColonAt(s, i, CHOOSE k \in ks : \A k2 \in ks : Len(k2) <= Len(k)),
                       Space))
      at(i) == longest(i, {k \in keys : FieldAt(s, i, k, StockStop) # NULL})
      leftmost(hits) == IF hits = {} THEN [at |-> 0, end |-> 0] ELSE at(Min(hits))
  IN leftmost({i \in 1..Len(s) : \E key \in keys : FieldAt(s, i, key, StockStop) # NULL})

\* s.replace(/key\s*[:fw:]\s*[^\s,fw,!fw!]+/, "")
RemoveField(s, keys) ==
  LET remove(m) == IF m.at = 0 THEN s ELSE SubSeq(s, 1, m.at - 1) \o From(s, m.end)
  IN remove(FieldSpan(s, keys))

\* group 1 of /(?:current)?price\s*[:fw:]\s*([^\s,fw,!fw!]+)/
PriceField_p004(s) ==
  LET group(m, a) == IF m.at = 0 THEN NULL ELSE SubSeq(s, RunEnd(s, a, Space), m.end - 1)
      either(m, a1) == group(m, IF a1 # 0 THEN a1 ELSE KeyColonAt(s, m.at, K_PRICE))
      match(m) == either(m, KeyColonAt(s, m.at, K_CURPRICE))
  IN match(FieldSpan(s, {K_CURPRICE, K_PRICE}))

\* s.replace(/[,fw,]/g, ' ')
CommasToSpaces(s) == [i \in 1..Len(s) |-> IF s[i] \in Commas THEN " " ELSE s[i]]

SIGNAL_WORDS ==
  { <<"duo", "xin", "hao">>, <<"kong", "xin", "hao">>,
    <<"mai3", "xin", "hao">>, <<"mai4", "xin", "hao">> }

K_PERIOD_COLON == K_PERIOD \o <<":", " ">>
K_PRICE_COLON == K_PRICE \o <<":", " ">>
K_INDICATOR_COLON == K_INDICATOR \o <<":", " ">>

\* the bullet part_004 renders for one line that holds a stock field
alertLine_p004(line) ==
  LET render(stock, period, price, signal, indicator, remainingSignal) ==
        <<"-", " ">> \o icon(detectDirection(signal)) \o <<"fw|", "*", "*">> \o stock
          \o <<"*", "*">>
          \o (IF period # NULL THEN SEP \o K_PERIOD_COLON \o period ELSE <<>>)
          \o (IF price # NULL THEN SEP \o K_PRICE_COLON \o price ELSE <<>>)
          \o (IF remainingSignal # <<>>
                   /\ ~(\E w \in SIGNAL_WORDS : Includes(remainingSignal, w))
              THEN SEP \o remainingSignal ELSE <<>>)
          \o (IF indicator # NULL THEN SEP \o K_INDICATOR_COLON \o indicator ELSE <<>>)
      remaining(signal) ==
        render(Field(line, LABEL, StockStop), Field(line, K_PERIOD, StockStop),
               PriceField_p004(line), signal, Field(line, K_INDICATOR, StockStop),
               Trim(CommasToSpaces(
                 RemoveField(RemoveField(RemoveField(RemoveField(signal,
                   {LABEL}), {K_PERIOD}), {K_CURPRICE, K_PRICE}), {K_INDICATOR}))))
      signalOf(sigField) == remaining(IF sigField # NULL THEN sigField ELSE line)
  IN signalOf(Field(line, K_SIGNAL, StockStop))

beautifyAlerts_p004(content) ==
  LET render(alerts) == IF Len(alerts) > 0 THEN Join(alerts, NL) ELSE content
      pick(lines) ==
        render(SelectIdx([k \in 1..Len(lines) |-> IF Field(lines[k], LABEL, StockStop) # NULL
                                                  THEN alertLine_p004(lines[k]) ELSE <<>>],
                         {k \in 1..Len(lines) : Field(lines[k], LABEL, StockStop) # NULL}))
      trim(raw0) == pick(FilterNonEmpty([k \in 1..Len(raw0) |-> Trim(raw0[k])]))
  IN trim(SplitLines(Trim(content)))

(***************************************************************************)
(* Provider payloads and their parsing.  "q" is the double quote.          *)
(***************************************************************************)
\* s.split(ch)
SplitOn(s, ch) ==
  LET at == {i \in 1..Len(s) : s[i] = ch}
      n  == Cardinality(at)
      pos[k \in 0..(n + 1)] ==
        IF k = 0 THEN 0
        ELSE IF k = n + 1 THEN Len(s) + 1
        ELSE Min({i \in at : i > pos[k - 1]})
  IN [k \in 1..(n + 1) |-> SubSeq(s, pos[k - 1] + 1, pos[k] - 1)]

\* webhook.js, part_004: text.split('"')[1]?.split(",")[0]?.trim(); name || null
parseSina_webhook(text) ==
  LET parts == SplitOn(text, "q")
  IN IF Len(parts) < 2 THEN NULL ELSE Trim(SplitOn(parts[2], ",")[1])

\* part_000, part_005: parts[1] of length > 1, then parts[1].split(',')[0]
parseSina_p000(text) ==
  LET parts == SplitOn(text, "q")
  IN IF Len(parts) > 1 /\ Len(parts[2]) > 1 THEN SplitOn(parts[2], ",")[1] ELSE NULL

\* part_001: parts[1] truthy, then parts[1].split(',')[0]
parseSina_p001(text) ==
  LET parts == SplitOn(text, "q")
  IN IF Len(parts) > 1 /\ parts[2] # <<>> THEN SplitOn(parts[2], ",")[1] ELSE NULL

\* webhook.js: parts.length > 2, then parts[1]?.trim() || null
parseTencent_webhook(text) ==
  LET parts == SplitOn(text, "~")
  IN IF Len(parts) > 2 THEN Trim(parts[2]) ELSE NULL

\* part_004: parts.length > 1, then parts[1]?.trim() || null
parseTencent_p004(text) ==
  LET parts == SplitOn(text, "~")
  IN IF Len(parts) > 1 THEN Trim(parts[2]) ELSE NULL

\* part_000, part_005: parts.length > 1 and parts[1] truthy, then parts[1]
parseTencent_p000(text) ==
  LET parts == SplitOn(text, "~")
  IN IF Len(parts) > 1 /\ parts[2] # <<>> THEN parts[2] ELSE NULL

parseSina(v, text) ==
  CASE v \in {"webhook", "p004"} -> parseSina_webhook(text)
    [] v \in {"p000", "p005"}    -> parseSina_p000(text)
    [] v = "p001"                -> parseSina_p001(text)

parseTencent(v, text) ==
  CASE v = "webhook"          -> parseTencent_webhook(text)
    [] v = "p004"             -> parseTencent_p004(text)
    [] v \in {"p000", "p005"} -> parseTencent_p000(text)
    [] OTHER                  -> NULL

\* what Provider A may send as a body: a quoted record that starts with the
\* name, an empty record, a record whose name is blank, a name with a blank in it
SinaPayloads ==
  { <<"v", "q", "N1", ",", "1", "q">>,
    <<"v", "q", "q">>,
    <<"v", "q", " ", ",", "1", "q">>,
    <<"v", "q", "C", " ", "M", ",", "1", "q">> }

\* what Provider B may send as a body: ~-separated with the name second, a
\* record with an empty name, a text without ~
TencentPayloads ==
  { <<"v", "~", "N2", "~", "1">>,
    <<"v", "~", "~", "1">>,
    <<"v">> }

(***************************************************************************)
(* The request a handler serves, and the handler's state.                  *)
(***************************************************************************)
VARIABLES
  variant,      \* which file's handler serves the request
  method,       \* req.method
  key,          \* the key parameter of the request URL ("" when absent)
  contentType,  \* the content-type header: "json" or "text"
  rawBody,      \* the request body: what JSON.parse makes of it, and its text
  pc,           \* where the handler is: start, body, lookup, relay, done
  messageBody,  \* the normalized message text
  work,         \* the text handed to the substitution
  resolved,     \* the text the substitution returned
  codes,        \* the codes handed to getChineseStockName, in order
  lk,           \* one lookup per member of codes
  relay,        \* the outbound relay request
  responses,    \* the responses sent to the caller, in order
  fnIn,         \* the argument of a function run on its own: a code, a text
  fnNames,      \* the names the providers hold when the pipeline runs on its own
  fnOut         \* the results of the function's runs so far

\* the variables the handler does not touch
fvars == <<fnIn, fnNames, fnOut>>
hvars == <<variant, method, key, contentType, rawBody, pc, messageBody, work,
           resolved, codes, lk, relay, responses>>
vars == <<hvars, fvars>>

Variants == {"webhook", "p000", "p001", "p004", "p005"}

\* WEBHOOK_CONFIG: the routing table the process loaded
webhookMap ==
  [ raw    |-> [url |-> TRUE,  type |-> "raw"],
    wecom  |-> [url |-> TRUE,  type |-> "wecom"],
    notype |-> [url |-> TRUE,  type |-> "none"],
    nourl  |-> [url |-> FALSE, type |-> "raw"] ]
\* the keys a request may carry: none, one the table does not hold, the table's
Keys == {"", "unknown"} \cup DOMAIN webhookMap

C_SZ == <<"1", "5", "9", "5", "6", "5">>
C_SZ2 == <<"0", "0", "2", "0", "7", "4">>
C_SH == <<"6", "0", "0", "0", "0", "0">>
C_HK == <<"9", "4", "1">>
C_UNK == <<"7", "0", "0", "0", "0", "0">>
C_HK5 == <<"0", "9", "9", "8", "8">>
LabelCode(c) == LABEL \o <<":", " ">> \o c
BUY == <<"mai3", "xin", "hao">>
SELL == <<"mai4", "xin", "hao">>

\* the spec's scenario: one alert on one line
MSG_SINGLE ==
  LabelCode(C_SZ) \o <<",", " ">> \o K_PERIOD \o <<":", " ", "5", ",", " ">> \o BUY \o <<"!">>
\* two alerts, the second with neither signal nor price
MSG_TWO == LabelCode(C_SH) \o <<",", " ">> \o K_PRICE \o <<":", "1", "nl">> \o LabelCode(C_HK)
\* the same code twice
MSG_DUP == LabelCode(C_SH) \o <<" ">> \o BUY \o NL \o LabelCode(C_SH) \o <<" ">> \o SELL
\* a five-digit code: the Hong Kong codes part_000 and part_005 extract
MSG_HK5 == LabelCode(C_HK5) \o <<" ">> \o BUY
\* a placeholder-shaped token and no label
MSG_TOKEN == LOOKUP_OPEN \o C_SH \o LOOKUP_CLOSE \o <<" ">> \o BUY
\* no label at all
MSG_PLAIN == <<"h", "i">>
\* a six-digit code of no market
MSG_UNK == LabelCode(C_UNK) \o <<",", " ">> \o K_PRICE \o <<":", "1">>
\* a ticker with its code in parentheses, the form part_001 expects
MSG_PAREN == LABEL \o <<":", " ", "A", " ", "(">> \o C_SZ2 \o <<")", "nl">> \o K_PRICE \o <<":", "1">>

\* the spec's JSON scenario: {"ticker": "AAPL", "price": 190.2}
JSON_TICKER ==
  << << <<"t", "i", "c", "k", "e", "r">>, <<"A", "A", "P", "L">> >>,
     << <<"p", "r", "i", "c", "e">>, <<"1", "9", "0", ".", "2">> >> >>

TextBody(t) == [json |-> FALSE, text |-> t, entries |-> <<>>]
\* a body JSON.parse accepts: the entries of the object it yields
JsonBody(e) == [json |-> TRUE, text |-> <<>>, entries |-> e]

Bodies ==
  { TextBody(MSG_SINGLE), TextBody(MSG_TWO), TextBody(MSG_DUP), TextBody(MSG_PLAIN),
    TextBody(MSG_UNK), TextBody(MSG_PAREN), TextBody(MSG_HK5), TextBody(MSG_TOKEN),
    JsonBody(<< <<LABEL, C_SZ2>>, <<K_PRICE, <<"1", "2">>>> >>), JsonBody(JSON_TICKER) }

\* Object.entries(obj).map(([k, v]) => `${k}: ${v}`).join("\n")
flatten(entries) ==
  Join([k \in 1..Len(entries) |-> entries[k][1] \o <<":", " ">> \o entries[k][2]], NL)

\* webhook.js, part_004: stringifyAlertBody
stringifyAlertBody(raw) == IF raw.json THEN flatten(raw.entries) ELSE raw.text

\* the text a handler makes of the body; ok is FALSE when JSON.parse throws
\* outside a try block (part_001 under a JSON content type)
normalize(v, raw, ct) ==
  CASE v \in {"webhook", "p004"} -> [ok |-> TRUE, text |-> stringifyAlertBody(raw)]
    [] v \in {"p000", "p005"}    -> [ok |-> TRUE, text |-> Trim(stringifyAlertBody(raw))]
    [] v = "p001" ->
         IF ct = "json" /\ ~raw.json THEN [ok |-> FALSE, text |-> <<>>]
         ELSE [ok |-> TRUE, text |-> stringifyAlertBody(raw)]

\* the text the substitution works on
workText(v, msg) == IF v = "webhook" THEN replaceTargets(msg) ELSE msg

\* the codes a handler hands to getChineseStockName
extractCodes(v, text) ==
  CASE v = "webhook" -> resolveTargetsCodes(text)
    [] v = "p004"    -> resolveStockNamesCodes(text)
    [] v = "p000"    -> processMessageCodes_p000(text)
    [] v = "p005"    -> processMessageCodes_p005(text)
    [] v = "p001"    -> handlerCodes_p001(text)

\* the text with the names put in
substitute(v, text, nameMap) ==
  CASE v = "webhook" -> resolveTargetsReplace(text, nameMap)
    [] v = "p004"    -> resolveStockNamesReplace(text, nameMap)
    [] v = "p000"    -> processMessage_p000(text, nameMap)
    [] v = "p005"    -> processMessage_p005(text, nameMap)
    [] v = "p001"    -> handlerReplace_p001(text, nameMap)

\* "[PROXY V2025-10-14-FIXED] "
MARKER_P000 ==
  <<"[", "P", "R", "O", "X", "Y", " ", "V", "2", "0", "2", "5", "-", "1", "0", "-",
    "1", "4", "-", "F", "I", "X", "E", "D", "]", " ">>
\* the check mark and a blank
MARKER_P005 == <<"check", " ">>

\* the text handed to the relay
finalText(v, text) ==
  CASE v = "webhook" -> beautifyAlerts(text)
    [] v = "p004"    -> beautifyAlerts_p004(text)
    [] v = "p000"    -> MARKER_P000 \o text
    [] v = "p005"    -> MARKER_P005 \o text
    [] v = "p001"    -> text

(***************************************************************************)
(* Lookups.  A lookup is one call of getChineseStockName; it waits for     *)
(* provider A's response headers (A_fetch), for A's body (A_body), then    *)
(* the same for provider B, and is done when the call has returned.        *)
(***************************************************************************)
\* does the file have a second provider
hasTencent(v) == v # "p001"
\* is a timer armed while the lookup waits for response headers:
\* fetchWithTimeout's setTimeout, or the timeout option of node-fetch 2
fetchTimer(v) == v # "p001"
\* is a timer armed while the lookup reads the response body: fetchWithTimeout
\* has cleared its timer by then, the timeout option still runs
bodyTimer(v) == v \in {"p000", "p005"}
\* the same for the relay request: only fetchWithTimeout arms a timer, and it
\* is cleared once the headers are in
relayTimer(v) == v \in {"webhook", "p004"}

\* String.prototype.padStart(5, "0")
padStart5(code) ==
  IF Len(code) >= 5 THEN code ELSE [k \in 1..(5 - Len(code)) |-> "0"] \o code

\* getStockNameFromSina that never pads
sinaCode_noPad(v, prefix, code) == code

\* the code getStockNameFromSina puts in its URL: webhook.js and part_004 pad
\* a Hong Kong code, part_000, part_005 and part_001 use the code as it is
sinaCode(v, prefix, code) ==
  IF v \in {"webhook", "p004"} /\ prefix = "hk" THEN padStart5(code) ELSE code

\* the code getStockNameFromTencent puts in its URL: every file that has the
\* function pads a Hong Kong code
tencentCode(v, prefix, code) == IF prefix = "hk" THEN padStart5(code) ELSE code

\* getChineseStockName without its market check: provider A is asked for
\* every code
startLookup_askUnknown(v, code) ==
  [ code |-> code, prefix |-> marketPrefix(v, code),
    ph |-> "A_fetch", timer |-> fetchTimer(v), nA |-> 1, nB |-> 0,
    reqA |-> sinaCode(v, marketPrefix(v, code), code), reqB |-> <<>>,
    aDone |-> FALSE, aName |-> NULL, bDone |-> FALSE, bName |-> NULL,
    name |-> NULL ]

\* the call of getChineseStockName for one code, up to its first await
startLookup(v, code) ==
  LET prefix == marketPrefix(v, code) IN
  [ code |-> code, prefix |-> prefix,
    ph |-> IF prefix = "none" THEN "done" ELSE "A_fetch",
    timer |-> prefix # "none" /\ fetchTimer(v),
    nA |-> IF prefix = "none" THEN 0 ELSE 1, nB |-> 0,
    reqA |-> IF prefix = "none" THEN <<>> ELSE sinaCode(v, prefix, code), reqB |-> <<>>,
    aDone |-> FALSE, aName |-> NULL, bDone |-> FALSE, bName |-> NULL,
    name |-> NULL ]

\* getChineseStockName asking provider B whatever provider A returned
afterProvider_askBoth(v, l, name) ==
  IF l.ph \in {"A_fetch", "A_body"}
  THEN [l EXCEPT !.ph = "B_fetch", !.timer = fetchTimer(v), !.aDone = TRUE, !.aName = name,
                 !.nB = l.nB + 1, !.reqB = tencentCode(v, l.prefix, l.code)]
  ELSE [l EXCEPT !.ph = "done", !.timer = FALSE, !.bDone = TRUE, !.bName = name,
                 !.name = name]

\* the provider of the phase has returned name (NULL for null): A's name is
\* the result if there is one, else B is asked, and B's result is the result
afterProvider(v, l, name) ==
  IF l.ph \in {"A_fetch", "A_body"}
  THEN IF name # NULL \/ ~hasTencent(v)
       THEN [l EXCEPT !.ph = "done", !.timer = FALSE, !.aDone = TRUE, !.aName = name,
                      !.name = name]
       ELSE [l EXCEPT !.ph = "B_fetch", !.timer = fetchTimer(v), !.aDone = TRUE,
                      !.nB = l.nB + 1, !.reqB = tencentCode(v, l.prefix, l.code)]
  ELSE [l EXCEPT !.ph = "done", !.timer = FALSE, !.bDone = TRUE, !.bName = name,
                 !.name = name]

\* the lookups resolveTargets, resolveStockNames, processMessage or the
\* handler start for the text: one per extracted code, all before any await
startLookups(v, text) ==
  LET cs == extractCodes(v, text) IN [i \in 1..Len(cs) |-> startLookup(v, cs[i])]

AllDone(ls) == \A i \in 1..Len(ls) : ls[i].ph = "done"

\* the name map the substitution reads: code -> name (NULL when absent)
nameMapOf(ls) ==
  [c \in {ls[i].code : i \in 1..Len(ls)} |->
     ls[CHOOSE i \in 1..Len(ls) : ls[i].code = c /\ \A j \in i+1..Len(ls) : ls[j].code # c].name]

NoRelay == [st |-> "idle", timer |-> FALSE, n |-> 0, outcome |-> "none",
            shape |-> "none", content |-> <<>>]

respond(status, success) == responses' = Append(responses, [status |-> status, success |-> success])

Init ==
  /\ variant \in Variants
  /\ method \in {"POST", "GET"}
  /\ key \in IF variant = "p001" THEN {""} ELSE Keys
  /\ contentType \in IF variant = "p001" THEN {"json", "text"} ELSE {"text"}
  /\ rawBody \in Bodies
  /\ pc = "start"
  /\ messageBody = <<>>
  /\ work = <<>>
  /\ resolved = <<>>
  /\ codes = <<>>
  /\ lk = <<>>
  /\ relay = NoRelay
  /\ responses = <<>>
  /\ fnIn = <<>>
  /\ fnNames = <<>>
  /\ fnOut = <<>>

\* the handler without its key checks
Start_anyKey ==
  /\ pc = "start"
  /\ IF method # "POST"
     THEN respond(405, FALSE) /\ pc' = "done"
     ELSE pc' = "body" /\ UNCHANGED responses
  /\ UNCHANGED <<fvars, variant, method, key, contentType, rawBody, messageBody, work, resolved, codes, lk, relay>>

\* the handler without its method check
Start_anyMethod ==
  /\ pc = "start"
  /\ IF variant \in {"p000", "p005"} /\ key = ""
     THEN respond(400, FALSE) /\ pc' = "done"
     ELSE IF variant # "p001" /\ (key \notin DOMAIN webhookMap \/ ~webhookMap[key].url)
     THEN respond(404, FALSE) /\ pc' = "done"
     ELSE pc' = "body" /\ UNCHANGED responses
  /\ UNCHANGED <<fvars, variant, method, key, contentType, rawBody, messageBody, work, resolved, codes, lk, relay>>

\* the handler up to its first await: method and key checks
Start ==
  /\ pc = "start"
  /\ IF method # "POST"
     THEN respond(405, FALSE) /\ pc' = "done"
     ELSE IF variant \in {"p000", "p005"} /\ key = ""
     THEN respond(400, FALSE) /\ pc' = "done"
     ELSE IF variant # "p001" /\ (key \notin DOMAIN webhookMap \/ ~webhookMap[key].url)
     THEN respond(404, FALSE) /\ pc' = "done"
     ELSE pc' = "body" /\ UNCHANGED responses
  /\ UNCHANGED <<fvars, variant, method, key, contentType, rawBody, messageBody, work, resolved, codes, lk, relay>>

\* the relay request for the final text
sendRelay(text) ==
  relay' = [st |-> "fetch", timer |-> relayTimer(variant), n |-> relay.n + 1,
            outcome |-> "none",
            shape |-> IF variant = "p001" \/ webhookMap[key].type = "wecom"
                      THEN "wecom" ELSE "raw",
            content |-> text]

\* the handler once every lookup has returned: substitute, post-process, relay
forward(final) ==
  IF variant = "p004" /\ Trim(final) = <<>>
  THEN respond(200, TRUE) /\ pc' = "done" /\ relay' = relay
  ELSE sendRelay(final) /\ pc' = "relay" /\ UNCHANGED responses

\* getRawBody resolves: normalize, extract the codes and start their lookups,
\* all of them before the first await
BodyEnd ==
  /\ pc = "body"
  /\ LET n == normalize(variant, rawBody, contentType) IN
     IF ~n.ok
     THEN /\ respond(500, FALSE) /\ pc' = "done"
          /\ UNCHANGED <<messageBody, work, resolved, codes, lk, relay>>
     ELSE /\ messageBody' = n.text
          /\ work' = workText(variant, n.text)
          /\ lk' = startLookups(variant, work')
          /\ codes' = [i \in 1..Len(lk') |-> lk'[i].code]
          /\ pc' = "lookup"
          /\ UNCHANGED <<resolved, relay, responses>>
  /\ UNCHANGED <<fvars, variant, method, key, contentType, rawBody>>

\* getRawBody rejects: the request stream errors or the body is too large
BodyError ==
  /\ pc = "body"
  /\ respond(500, FALSE) /\ pc' = "done"
  /\ UNCHANGED <<fvars, variant, method, key, contentType, rawBody, messageBody, work, resolved, codes, lk, relay>>

\* lookup i has got name (NULL for null) from the provider it waits on
settle(i, name) ==
  /\ lk' = [lk EXCEPT ![i] = afterProvider(variant, lk[i], name)]
  /\ UNCHANGED <<fvars, variant, method, key, contentType, rawBody, pc, messageBody, work, resolved, codes,
                 relay, responses>>

\* the handler that does not await its lookups before it relays
AfterLookups_noAwait ==
  /\ pc = "lookup"
  /\ LET post(text) == resolved' = text /\ forward(finalText(variant, text))
     IN post(substitute(variant, work, nameMapOf(lk)))
  /\ UNCHANGED <<fvars, variant, method, key, contentType, rawBody, messageBody, work, codes, lk>>

\* every lookup has returned (Promise.all resolves, or the one await returns):
\* the handler substitutes the names, post-processes and relays
AfterLookups ==
  /\ pc = "lookup"
  /\ AllDone(lk)
  /\ LET post(text) == resolved' = text /\ forward(finalText(variant, text))
     IN post(substitute(variant, work, nameMapOf(lk)))
  /\ UNCHANGED <<fvars, variant, method, key, contentType, rawBody, messageBody, work, codes, lk>>

Waiting(i) == pc = "lookup" /\ i \in 1..Len(lk) /\ lk[i].ph # "done"
AwaitsFetch(i) == Waiting(i) /\ lk[i].ph \in {"A_fetch", "B_fetch"}
AwaitsBody(i) == Waiting(i) /\ lk[i].ph \in {"A_body", "B_body"}

\* the provider answers 2xx: fetch resolves, the body read starts
ProviderHeadersOk(i) ==
  /\ AwaitsFetch(i)
  /\ lk' = [lk EXCEPT ![i].ph = IF lk[i].ph = "A_fetch" THEN "A_body" ELSE "B_body",
                      ![i].timer = bodyTimer(variant)]
  /\ UNCHANGED <<fvars, variant, method, key, contentType, rawBody, pc, messageBody, work, resolved, codes,
                 relay, responses>>

\* the provider answers with an error status: if (!resp.ok) return null
ProviderHeadersNotOk(i) == AwaitsFetch(i) /\ settle(i, NULL)

\* the lookup without its try/catch: the rejection reaches the handler's catch
ProviderNetError_uncaught(i) ==
  /\ AwaitsFetch(i)
  /\ respond(500, FALSE) /\ pc' = "done"
  /\ UNCHANGED <<fvars, variant, method, key, contentType, rawBody, messageBody, work, resolved, codes,
                 lk, relay>>

\* the connection to the provider fails: fetch rejects, catch returns null
ProviderNetError(i) == AwaitsFetch(i) /\ settle(i, NULL)

\* the armed timer fires: the request is aborted, catch returns null
ProviderTimeout(i) == Waiting(i) /\ lk[i].timer /\ settle(i, NULL)

\* the body arrives and is parsed
ProviderBody(i) ==
  /\ AwaitsBody(i)
  /\ IF lk[i].ph = "A_body"
     THEN \E t \in SinaPayloads : settle(i, parseSina(variant, t))
     ELSE \E t \in TencentPayloads : settle(i, parseTencent(variant, t))

\* the body read fails: arrayBuffer rejects, catch returns null
ProviderBodyError(i) == AwaitsBody(i) /\ settle(i, NULL)

(***************************************************************************)
(* The relay request and the response to the caller.                       *)
(***************************************************************************)
hfixed == <<fvars, variant, method, key, contentType, rawBody, messageBody, work, resolved, codes, lk>>

\* the destination answers 2xx
RelayHeadersOk ==
  /\ pc = "relay" /\ relay.st = "fetch"
  /\ IF variant = "p005"
     THEN /\ relay' = [relay EXCEPT !.st = "body", !.timer = FALSE, !.outcome = "ok"]
          /\ UNCHANGED <<pc, responses>>
     ELSE /\ relay' = [relay EXCEPT !.st = "done", !.timer = FALSE, !.outcome = "ok"]
          /\ respond(200, TRUE) /\ pc' = "done"
  /\ UNCHANGED hfixed

\* the destination answers with an error status: every file reads the body
RelayHeadersNotOk ==
  /\ pc = "relay" /\ relay.st = "fetch"
  /\ relay' = [relay EXCEPT !.st = "body", !.timer = FALSE, !.outcome = "rejected"]
  /\ UNCHANGED <<pc, responses>>
  /\ UNCHANGED hfixed

\* the destination is unreachable: fetch rejects, the handler's catch answers
RelayNetError ==
  /\ pc = "relay" /\ relay.st = "fetch"
  /\ relay' = [relay EXCEPT !.st = "done", !.timer = FALSE, !.outcome = "unreachable"]
  /\ respond(500, FALSE) /\ pc' = "done"
  /\ UNCHANGED hfixed

\* the relay's timer fires: AbortError, the handler's catch answers
RelayTimeout ==
  /\ pc = "relay" /\ relay.st \in {"fetch", "body"} /\ relay.timer
  /\ relay' = [relay EXCEPT !.st = "done", !.timer = FALSE, !.outcome = "timeout"]
  /\ respond(500, FALSE) /\ pc' = "done"
  /\ UNCHANGED hfixed

\* the destination's response body arrives
RelayBody ==
  /\ pc = "relay" /\ relay.st = "body"
  /\ relay' = [relay EXCEPT !.st = "done"]
  /\ CASE variant \in {"webhook", "p004"} -> respond(502, FALSE)
       [] variant \in {"p000", "p005"}    -> respond(200, TRUE)
       [] variant = "p001"                -> respond(500, FALSE)
  /\ pc' = "done"
  /\ UNCHANGED hfixed

\* reading the destination's response body fails: the handler's catch answers
RelayBodyError ==
  /\ pc = "relay" /\ relay.st = "body"
  /\ relay' = [relay EXCEPT !.st = "done",
                            !.outcome = IF relay.outcome = "ok" THEN "broken" ELSE relay.outcome]
  /\ respond(500, FALSE) /\ pc' = "done"
  /\ UNCHANGED hfixed

Next ==
  \/ Start
  \/ BodyEnd
  \/ BodyError
  \/ \E i \in 1..Len(lk) : ProviderHeadersOk(i)
  \/ \E i \in 1..Len(lk) : ProviderHeadersNotOk(i)
  \/ \E i \in 1..Len(lk) : ProviderNetError(i)
  \/ \E i \in 1..Len(lk) : ProviderTimeout(i)
  \/ \E i \in 1..Len(lk) : ProviderBody(i)
  \/ \E i \in 1..Len(lk) : ProviderBodyError(i)
  \/ AfterLookups
  \/ RelayHeadersOk
  \/ RelayHeadersNotOk
  \/ RelayNetError
  \/ RelayTimeout
  \/ RelayBody
  \/ RelayBodyError

Spec == Init /\ [][Next]_vars

(***************************************************************************)
(* The market classification run on its own, over code strings the         *)
(* messages of the handler model do not produce.                           *)
(***************************************************************************)
\* first characters: every digit class the classifications tell apart, a letter
LeadChars == {"0", "1", "2", "3", "5", "6", "8", "9", "x"}
RestChars == {"0", "x"}
CodeInputs ==
  {<<>>} \cup
  UNION { { <<h>> \o t : h \in LeadChars, t \in [1..(n - 1) -> RestChars] } : n \in 1..MaxCodeLen }

\* what a function run leaves of the handler's state
HandlerIdle ==
  /\ method = "POST"
  /\ key = ""
  /\ contentType = "text"
  /\ rawBody = TextBody(<<>>)
  /\ pc = "start"
  /\ messageBody = <<>>
  /\ work = <<>>
  /\ resolved = <<>>
  /\ codes = <<>>
  /\ lk = <<>>
  /\ relay = NoRelay
  /\ responses = <<>>

InitClassify ==
  /\ variant \in Variants
  /\ fnIn \in CodeInputs
  /\ fnNames = <<>>
  /\ fnOut = <<>>
  /\ HandlerIdle

\* getChineseStockName up to its first await: the market prefix of the code
Classify ==
  /\ pc = "start"
  /\ fnOut' = <<marketPrefix(variant, fnIn)>>
  /\ pc' = "done"
  /\ UNCHANGED <<fnIn, fnNames, variant, method, key, contentType, rawBody, messageBody, work, resolved,
                 codes, lk, relay, responses>>

NextClassify == Classify

SpecClassify == InitClassify /\ [][NextClassify]_vars

(***************************************************************************)
(* The extract-resolve-substitute pipeline run twice, the second time on   *)
(* the output of the first.                                                *)
(***************************************************************************)
PipelineTexts == {MSG_SINGLE, MSG_TWO, MSG_DUP, MSG_PLAIN, MSG_UNK, MSG_PAREN}
\* what the providers hold for a code of a known market: nothing, a name, a
\* name with a blank in it
PipelineNames == {NULL, <<"N1">>, <<"C", " ", "M">>}

\* the codes of the text the pipeline asks a provider about
pipelineQueried(v, text) ==
  SelectSeq(extractCodes(v, workText(v, text)), LAMBDA c : marketPrefix(v, c) # "none")

\* the text the pipeline makes of text when the providers hold name
pipelineOut(v, text, name) ==
  substitute(v, workText(v, text),
             [c \in {extractCodes(v, workText(v, text))[i] :
                       i \in 1..Len(extractCodes(v, workText(v, text)))} |->
                IF marketPrefix(v, c) = "none" THEN NULL ELSE name])

InitTwice ==
  /\ variant \in Variants
  /\ fnIn \in PipelineTexts
  /\ fnNames \in PipelineNames
  /\ fnOut = <<>>
  /\ HandlerIdle

\* one run of the pipeline: on the message, then on its own output
RunPipeline ==
  /\ pc \in {"start", "once"}
  /\ fnOut' = Append(fnOut,
                [ text    |-> pipelineOut(variant, IF fnOut = <<>> THEN fnIn ELSE fnOut[1].text,
                                          fnNames),
                  queried |-> pipelineQueried(variant,
                                              IF fnOut = <<>> THEN fnIn ELSE fnOut[1].text) ])
  /\ pc' = IF pc = "start" THEN "once" ELSE "done"
  /\ UNCHANGED <<fnIn, fnNames, variant, method, key, contentType, rawBody, messageBody, work, resolved,
                 codes, lk, relay, responses>>

NextTwice == RunPipeline

SpecTwice == InitTwice /\ [][NextTwice]_vars

(***************************************************************************)
(* The beautifier run on its own, on texts of a few lines.                 *)
(***************************************************************************)
MaxLines == 2

\* the lines the texts are made of: blank, free text, a stock alone, a stock
\* with a price, a bulleted stock with a signal, a period, the card title, a
\* label without value
BeautifyLines ==
  { <<" ">>, <<"h", "i">>, LabelCode(C_SH),
    LabelCode(C_SH) \o <<",", " ">> \o K_PRICE \o <<":", "1">>,
    <<"-", " ">> \o LabelCode(C_HK) \o <<" ">> \o BUY,
    K_PERIOD \o <<":", " ", "5">>, SIGNAL_DETAIL, LABEL \o <<":">> }

BeautifyTexts ==
  UNION { { Join(ls, NL) : ls \in [1..n -> BeautifyLines] } : n \in 1..MaxLines }

InitBeautify ==
  /\ variant \in {"webhook", "p004"}
  /\ fnIn \in BeautifyTexts
  /\ fnNames = <<>>
  /\ fnOut = <<>>
  /\ HandlerIdle

\* beautifyAlerts of the handler's file, applied to the text
Beautify ==
  /\ pc = "start"
  /\ fnOut' = <<finalText(variant, fnIn)>>
  /\ pc' = "done"
  /\ UNCHANGED <<fnIn, fnNames, variant, method, key, contentType, rawBody, messageBody, work,
                 resolved, codes, lk, relay, responses>>

NextBeautify == Beautify

SpecBeautify == InitBeautify /\ [][NextBeautify]_vars


(***************************************************************************)
(* detectDirection run on its own, on signal texts made of a few words.    *)
(***************************************************************************)
MaxWords == 2

W_SHORT == { <<"s", "e", "l", "l">>, <<"S", "E", "L", "L">>, <<"zuo", "kong">>, SELL }
W_LONG == { <<"b", "u", "y">>, <<"zuo", "duo">>, BUY }
W_STOP == { STOP_WORD }
W_OTHER == { <<"h", "i">> }
DirectionWords == W_SHORT \cup W_LONG \cup W_STOP \cup W_OTHER

\* the words of a signal text, in order; none for an absent or empty signal
DirectionInputs == UNION { [1..n -> DirectionWords] : n \in 0..MaxWords }

InitDirection ==
  /\ variant \in {"webhook", "p004"}
  /\ fnIn \in DirectionInputs
  /\ fnNames = <<>>
  /\ fnOut = <<>>
  /\ HandlerIdle

\* detectDirection applied to the text the words make
Detect ==
  /\ pc = "start"
  /\ fnOut' = <<detectDirection(Join(fnIn, <<>>))>>
  /\ pc' = "done"
  /\ UNCHANGED <<fnIn, fnNames, variant, method, key, contentType, rawBody, messageBody, work,
                 resolved, codes, lk, relay, responses>>

NextDirection == Detect

SpecDirection == InitDirection /\ [][NextDirection]_vars

(***************************************************************************)
(* getRawBody of src/api/webhook.js and part_004 read chunk by chunk.  The *)
(* read only counts bytes, so a body is the lengths of its chunks; its     *)
(* text, looked at once the read has resolved, is rawBody.  fnNames holds  *)
(* the chunk lengths of the whole body, fnIn the chunks not yet delivered, *)
(* fnOut the counter size and the state of the promise.                    *)
(***************************************************************************)
MaxChunks == 3

maxSize == 1024 * 1024

ChunkSizes == {1, 524288, 1048575, 1048576}

ChunkSeqs == UNION { [1..n -> ChunkSizes] : n \in 0..MaxChunks }

\* getRawBody that also rejects a body of exactly maxSize bytes
tooLarge_atLimit(size) == size >= maxSize

\* if (size > maxSize)
tooLarge(size) == size > maxSize

InitBody ==
  /\ variant \in {"webhook", "p004"}
  /\ method = "POST"
  /\ key = "raw"
  /\ contentType = "text"
  /\ rawBody \in {TextBody(MSG_SINGLE), TextBody(MSG_TWO)}
  /\ pc = "body"
  /\ messageBody = <<>>
  /\ work = <<>>
  /\ resolved = <<>>
  /\ codes = <<>>
  /\ lk = <<>>
  /\ relay = NoRelay
  /\ responses = <<>>
  /\ fnNames \in ChunkSeqs
  /\ fnIn = fnNames
  /\ fnOut = <<0, "open">>

\* req.on("data"): the chunk is counted; over the limit the promise is
\* rejected, the stream destroyed and the handler's catch answers 500
BodyData ==
  /\ pc = "body" /\ fnIn # <<>> /\ fnOut[2] = "open"
  /\ fnIn' = Tail(fnIn)
  /\ LET data(size) ==
           IF tooLarge(size)
           THEN fnOut' = <<size, "too large">> /\ respond(500, FALSE) /\ pc' = "done"
           ELSE fnOut' = <<size, "open">> /\ UNCHANGED <<pc, responses>>
     IN data(fnOut[1] + Head(fnIn))
  /\ UNCHANGED <<fnNames, variant, method, key, contentType, rawBody, messageBody, work,
                 resolved, codes, lk, relay>>

\* req.on("error"): the promise is rejected, the handler's catch answers 500
BodyStreamError ==
  /\ pc = "body" /\ fnOut[2] = "open"
  /\ fnOut' = <<fnOut[1], "error">>
  /\ respond(500, FALSE) /\ pc' = "done"
  /\ UNCHANGED <<fnIn, fnNames, variant, method, key, contentType, rawBody, messageBody, work,
                 resolved, codes, lk, relay>>

\* req.on("end"): every chunk was delivered, the promise resolves
BodyStreamEnd == fnIn = <<>> /\ fnOut[2] = "open" /\ BodyEnd

NextBody ==
  \/ BodyData
  \/ BodyStreamError
  \/ BodyStreamEnd
  \/ \E i \in 1..Len(lk) : ProviderHeadersOk(i)
  \/ \E i \in 1..Len(lk) : ProviderHeadersNotOk(i)
  \/ \E i \in 1..Len(lk) : ProviderNetError(i)
  \/ \E i \in 1..Len(lk) : ProviderTimeout(i)
  \/ \E i \in 1..Len(lk) : ProviderBody(i)
  \/ \E i \in 1..Len(lk) : ProviderBodyError(i)
  \/ AfterLookups
  \/ RelayHeadersOk
  \/ RelayHeadersNotOk
  \/ RelayNetError
  \/ RelayTimeout
  \/ RelayBody
  \/ RelayBodyError

SpecBody == InitBody /\ [][NextBody]_vars


(***************************************************************************)
(* part_002: the handler that formats req.body by its shape.  The platform *)
(* has parsed the body: a string, an object whose values are strings, or   *)
(* undefined.  A text is its UTF-16 code units: the two emoji share their  *)
(* high surrogate; "bt" is the backtick.                                   *)
(***************************************************************************)
SIREN == <<"D83D", "DEA8">>
CHART == <<"D83D", "DCCA">>
TRADINGVIEW == <<"T", "r", "a", "d", "i", "n", "g", "V", "i", "e", "w">>
ALERT == <<"jing", "bao">>

\* the title the handler puts before a message that has none
HEADER_P002 == SIREN \o <<" ">> \o TRADINGVIEW \o <<" ">> \o ALERT \o NL \o NL

\* the notice that ends a message that was cut
NOTICE_P002 ==
  NL \o NL \o <<".", ".", ".", "(", "xiao", "xi", "guo", "chang", "yi", "jie", "duan", ")">>

StringBody(t) == [type |-> "string", text |-> t, entries |-> <<>>]
ObjectBody(e) == [type |-> "object", text |-> <<>>, entries |-> e]
UndefinedBody == [type |-> "undefined", text |-> <<>>, entries |-> <<>>]

\* req.body[name]: NULL when the object has no such key
fieldOf(body, name) ==
  LET hits == {i \in 1..Len(body.entries) : body.entries[i][1] = name}
  IN IF hits = {} THEN NULL ELSE body.entries[Min(hits)][2]

\* key ": " value
keyValue(e) == e[1] \o <<":", " ">> \o e[2]

\* JSON.stringify(req.body, null, 2) of an object of strings
rawJson(body) ==
  IF body.entries = <<>> THEN <<"{", "}">>
  ELSE <<"{">> \o NL
       \o Join([i \in 1..Len(body.entries) |->
                  <<" ", " ", "q">> \o body.entries[i][1] \o <<"q", ":", " ", "q">>
                    \o body.entries[i][2] \o <<"q">>], <<",">> \o NL)
       \o NL \o <<"}">>

\* the content the handler builds from req.body
content_p002(body) ==
  LET formatted == Join([i \in 1..Len(body.entries) |-> keyValue(body.entries[i])], NL)
  IN IF body.type = "string"
        /\ (Includes(body.text, SIREN) \/ Includes(body.text, CHART)
            \/ Includes(body.text, TRADINGVIEW) \/ Includes(body.text, ALERT))
     THEN body.text
     ELSE IF body.type = "object" /\ fieldOf(body, <<"c", "o", "n", "t", "e", "n", "t">>) # NULL
     THEN fieldOf(body, <<"c", "o", "n", "t", "e", "n", "t">>)
     ELSE IF body.type = "object" /\ fieldOf(body, <<"m", "e", "s", "s", "a", "g", "e">>) # NULL
     THEN fieldOf(body, <<"m", "e", "s", "s", "a", "g", "e">>)
     ELSE IF body.type = "object" /\ fieldOf(body, <<"t", "e", "x", "t">>) # NULL
     THEN fieldOf(body, <<"t", "e", "x", "t">>)
     ELSE IF body.type = "object"
     THEN IF Len(body.entries) <= 3
          THEN HEADER_P002 \o formatted
          ELSE HEADER_P002 \o formatted \o NL \o NL
                 \o <<"-", "-", "-", " ", "xiang", "xi", "shu", "ju", " ", "-", "-", "-">> \o NL
                 \o <<"bt", "bt", "bt">> \o NL \o rawJson(body) \o NL \o <<"bt", "bt", "bt">>
     ELSE IF body.type = "string"
     THEN IF Includes(body.text, SIREN) THEN body.text ELSE HEADER_P002 \o body.text
     ELSE HEADER_P002 \o <<"u", "n", "d", "e", "f", "i", "n", "e", "d">>

\* if (content.length > 2048) content = content.substring(0, 2000) + notice
limit_p002(content) ==
  IF Len(content) > 2048 THEN SubSeq(content, 1, 2000) \o NOTICE_P002 ELSE content

Pad(n) == [i \in 1..n |-> "a"]

SmartFields ==
  { <<"c", "o", "n", "t", "e", "n", "t">>, <<"m", "e", "s", "s", "a", "g", "e">>,
    <<"t", "e", "x", "t">> }

SmartKeys == << <<"k", "1">>, <<"k", "2">>, <<"k", "3">>, <<"k", "4">> >>

SmartBodies ==
  { StringBody(m \o Pad(n)) : m \in {<<>>, SIREN, CHART, TRADINGVIEW, ALERT},
                              n \in {0, 5, 2029, 2030, 2048, 2049} }
  \cup { ObjectBody(<< <<f, Pad(n)>> >>) : f \in SmartFields, n \in {5, 2048, 2049} }
  \cup { ObjectBody([i \in 1..n |-> << SmartKeys[i], Pad(i) >>]) : n \in {0, 1, 3, 4} }
  \cup { UndefinedBody }

InitSmart ==
  /\ variant = "p002"
  /\ method \in {"POST", "GET"}
  /\ key = ""
  /\ contentType = "text"
  /\ rawBody \in SmartBodies
  /\ pc = "start"
  /\ messageBody = <<>>
  /\ work = <<>>
  /\ resolved = <<>>
  /\ codes = <<>>
  /\ lk = <<>>
  /\ relay = NoRelay
  /\ responses = <<>>
  /\ fnIn = <<>>
  /\ fnNames = <<>>
  /\ fnOut = <<>>

\* the handler of part_002 up to its response or its first await: the method
\* check, the content, its length limit, and the call of ensureUTF8.  The
\* module neither defines nor imports ensureUTF8: the call throws a
\* ReferenceError, the handler's catch answers 500 and fetch is never called.
handler_p002 ==
  /\ pc = "start"
  /\ IF method # "POST"
     THEN respond(405, FALSE) /\ UNCHANGED <<messageBody, work>>
     ELSE LET built(content) == messageBody' = content /\ work' = limit_p002(content)
          IN built(content_p002(rawBody)) /\ respond(500, FALSE)
  /\ pc' = "done"
  /\ UNCHANGED <<fvars, variant, method, key, contentType, rawBody, resolved, codes, lk, relay>>

NextSmart == handler_p002

SpecSmart == InitSmart /\ [][NextSmart]_vars


(***************************************************************************)
(* Properties.                                                             *)
(***************************************************************************)
FailureStatus(r) == r.status >= 500 /\ ~r.success

\* C1: whenever the relay to the destination fails (the destination answers
\* non-2xx, is unreachable or times out), the one response to the caller is a
\* failure response (5xx), never 200 with success: true.
C1_RelayFailureSurfaced ==
  (pc = "done" /\ relay.outcome \in {"rejected", "unreachable", "timeout"})
    => (Len(responses) = 1 /\ FailureStatus(responses[1]))

\* a pending lookup or the relay waits on the remote side with no timer armed:
\* only the provider or the destination can end the wait, and nothing obliges
\* either to answer or to finish a response it has begun
LookupUnbounded(i) == pc = "lookup" /\ lk[i].ph # "done" /\ ~lk[i].timer
RelayUnbounded == pc = "relay" /\ ~relay.timer

\* C2: the request served by src/api/webhook.js, whatever its method, key and
\* body and whatever the providers and the destination do, gets exactly one
\* response: never two, one once the handler is done, and until then the
\* handler is never left waiting on a remote side that may stay silent for ever.
C2_ExactlyOneResponse ==
  (variant = "webhook")
    => /\ Len(responses) <= 1
       /\ pc = "done" => Len(responses) = 1
       /\ pc # "done" => Len(responses) = 0
       /\ ~RelayUnbounded
       /\ \A i \in 1..Len(lk) : ~LookupUnbounded(i)

\* C3: every code extracted from the message (src/api/webhook.js and part_005)
\* occurs verbatim in the text handed to the relay, whether or not its lookup
\* returned a name, and also after the beautifier has run.
C3_NoCodeLoss ==
  (variant \in {"webhook", "p005"} /\ relay.st # "idle")
    => \A i \in 1..Len(codes) : ContainsCode(relay.content, codes[i])

\* the name the claim gives a lookup whose providers answered aName and bName
ResolvedName(l) ==
  IF l.aName # NULL THEN l.aName ELSE IF l.bName # NULL THEN l.bName ELSE NULL

\* C4: for every code with a known market provider A is queried first, and
\* once; provider B is queried only after A has completed with an empty or
\* failed result, never when A returned a name; the resolved name is A's name
\* if there is one, else B's name if there is one, else absent.
C4_SinaThenTencent ==
  \A i \in 1..Len(lk) :
    /\ lk[i].prefix # "none" => lk[i].nA = 1
    /\ lk[i].nB <= 1
    /\ lk[i].nB > 0 => lk[i].aDone /\ lk[i].aName = NULL
    /\ lk[i].ph \in {"B_fetch", "B_body"} => lk[i].nB = 1
    /\ lk[i].bDone => lk[i].nB = 1
    /\ (lk[i].ph = "done" /\ lk[i].prefix # "none") => lk[i].name = ResolvedName(lk[i])

\* provider A came back empty or failed, provider B returned a name, and that
\* name is the lookup's result
C4_Witness ==
  \E i \in 1..Len(lk) :
    /\ lk[i].ph = "done" /\ lk[i].aDone /\ lk[i].aName = NULL
    /\ lk[i].bDone /\ lk[i].bName # NULL /\ lk[i].name = lk[i].bName

\* C5: a provider failure of any kind never aborts the request: the name of
\* the code becomes absent, the message is still relayed, and a 500 only ever
\* follows a failure to read or parse the request or a failed relay.
C5_ProviderFailureContained ==
  /\ \A k \in 1..Len(responses) :
       responses[k].status = 500
         => \/ Len(lk) = 0 /\ relay.n = 0
            \/ relay.outcome \in {"rejected", "unreachable", "timeout", "broken"}
  /\ (pc \in {"relay", "done"} /\ Len(lk) > 0) => relay.n = 1
  /\ \A i \in 1..Len(lk) :
       (lk[i].ph = "done" /\ lk[i].aName = NULL /\ lk[i].bName = NULL) => lk[i].name = NULL

\* both providers failed for one code of a two-code message, the other code got
\* its name, the message was relayed and the caller told success
C5_Witness ==
  /\ Len(lk) = 2
  /\ lk[1].ph = "done" /\ lk[1].aDone /\ lk[1].bDone /\ lk[1].name = NULL
  /\ lk[2].name # NULL
  /\ relay.n = 1 /\ ContainsCode(relay.content, lk[1].code)
  /\ pc = "done" /\ responses = <<[status |-> 200, success |-> TRUE]>>

\* C6: every network call of src/api/webhook.js and part_000 is time-bounded:
\* while a lookup waits for a provider's headers or body, and while the relay
\* waits for the destination, a timer is armed that ends the wait.
C6_TimeBounded ==
  (variant \in {"webhook", "p000"})
    => /\ \A i \in 1..Len(lk) : lk[i].ph # "done" => lk[i].timer
       /\ relay.st \in {"fetch", "body"} => relay.timer

\* C7: the codes of one message (src/api/webhook.js, part_004) are resolved
\* concurrently and each on its own clock: while the batch is pending every
\* lookup of a known market has been started, and every pending one has a timer
\* armed, so a provider that hangs for one code delays no other and the batch
\* completes.
C7_TimeoutIsolation ==
  (variant \in {"webhook", "p004"} /\ pc = "lookup")
    => \A i \in 1..Len(lk) :
         /\ lk[i].prefix # "none" => lk[i].nA = 1
         /\ lk[i].ph # "done" => lk[i].timer

\* C8: the name resolver is invoked at most once per distinct code of the
\* message, so each provider is queried at most once per distinct code.
C8_Dedup ==
  \A i \in 1..Len(lk) :
    /\ \A j \in 1..Len(lk) : lk[i].code = lk[j].code => i = j
    /\ lk[i].nA <= 1 /\ lk[i].nB <= 1

\* a message that holds one code twice: one lookup, both occurrences rendered
C8_Witness ==
  /\ variant \in {"webhook", "p004"}
  /\ messageBody = MSG_DUP
  /\ Len(lk) = 1 /\ lk[1].ph = "done" /\ lk[1].nA = 1
  /\ pc = "relay"

\* C9: the pipeline run on its own output gives the text of the first run and
\* asks no provider: a code already rendered with its name is not extracted
\* again (src/api/webhook.js, part_000, part_001).
C9_Idempotent ==
  (variant \in {"webhook", "p000", "p001"} /\ pc = "done")
    => /\ fnOut[2].text = fnOut[1].text
       /\ fnOut[2].queried = <<>>

\* C10: the market of a code is hk for 1 to 5 digits, sh for 6 digits led by
\* 5 or 6, sz for 6 digits led by 0, 1 or 3, and unknown for every other
\* string (src/api/webhook.js, part_001).
C10_Classification ==
  LET claimed(c) ==
        IF Len(c) \in 1..5 /\ AllDigits(c) THEN "hk"
        ELSE IF Len(c) = 6 /\ AllDigits(c) /\ c[1] \in {"5", "6"} THEN "sh"
        ELSE IF Len(c) = 6 /\ AllDigits(c) /\ c[1] \in {"0", "1", "3"} THEN "sz"
        ELSE "none"
  IN (variant \in {"webhook", "p001"} /\ pc = "done") => fnOut = <<claimed(fnIn)>>

\* C11: a code of unknown market is never sent to a provider and has no name;
\* in src/api/webhook.js a message with no labelled code starts no lookup, and
\* when no code of the message has a known market the text leaves the
\* resolution step as it entered it.  (part_000 and part_005 rewrite the line
\* of a code they found no name for: that is the case of C16.)
C11_UnknownPassesThrough ==
  /\ \A i \in 1..Len(lk) :
       lk[i].prefix = "none"
         => lk[i].nA = 0 /\ lk[i].nB = 0 /\ lk[i].ph = "done" /\ lk[i].name = NULL
  /\ (variant \in {"webhook", "p004"} /\ pc \in {"lookup", "relay", "done"}
        /\ \A i \in 1..Len(messageBody) : ~LabelCodeAt(messageBody, i, 1, 6).ok)
       => lk = <<>>
  /\ (variant \in {"webhook", "p004", "p001"} /\ relay.n > 0
        /\ \A i \in 1..Len(lk) : lk[i].prefix = "none")
       => resolved = messageBody

\* a message whose one code is of no market has been relayed by webhook.js:
\* no provider was asked, the resolved text is the message
C11_Witness ==
  /\ variant = "webhook" /\ rawBody = TextBody(MSG_UNK)
  /\ Len(lk) = 1 /\ lk[1].prefix = "none" /\ lk[1].nA = 0
  /\ relay.n = 1 /\ resolved = messageBody /\ pc = "done"

\* C12: in src/api/webhook.js and part_001, whatever the content type, a body
\* that is not JSON never fails the request: once the body is read the message
\* is the raw text and the handler goes on to the lookups and the relay.
C12_ParseFallback ==
  [][(variant \in {"webhook", "p001"} /\ ~rawBody.json /\ BodyEnd)
       => (pc' = "lookup" /\ messageBody' = rawBody.text /\ responses' = responses)]_vars

\* C13: in the handlers that route by key (all but part_001, whose destination
\* is fixed), a request whose key is missing, unknown or maps to an entry
\* without url is answered 400 or 404 when it is a POST (405 otherwise), and
\* neither a lookup nor a relay request is ever made for it.
C13_BadKeyRejected ==
  (variant # "p001" /\ (key \notin DOMAIN webhookMap \/ ~webhookMap[key].url))
    => /\ pc \in {"start", "done"}
       /\ lk = <<>> /\ relay = NoRelay
       /\ pc = "done"
            => /\ Len(responses) = 1 /\ ~responses[1].success
               /\ responses[1].status = IF method = "POST"
                                        THEN (IF key = "" /\ variant \in {"p000", "p005"}
                                              THEN 400 ELSE 404)
                                        ELSE 405

\* a POST to src/api/webhook.js whose key maps to an entry without url has been
\* answered 404
C13_Witness ==
  /\ variant = "webhook" /\ method = "POST" /\ key = "nourl"
  /\ pc = "done" /\ responses = <<[status |-> 404, success |-> FALSE]>>
  /\ relay.n = 0 /\ lk = <<>>

\* C14: a request whose method is not POST is answered 405 before the body
\* is read; no lookup and no relay request is made for it.
C14_PostOnly ==
  (method # "POST")
    => /\ pc \in {"start", "done"}
       /\ messageBody = <<>> /\ lk = <<>> /\ relay = NoRelay
       /\ pc = "done" => responses = <<[status |-> 405, success |-> FALSE]>>
       /\ pc = "start" => responses = <<>>

\* a GET to part_001 has been answered 405 with nothing read or sent
C14_Witness ==
  /\ variant = "p001" /\ method = "GET" /\ pc = "done"
  /\ responses = <<[status |-> 405, success |-> FALSE]>>
  /\ messageBody = <<>> /\ relay.n = 0

\* C15: in src/api/webhook.js, part_000 and part_005 the relay request has the
\* markdown envelope exactly when the route's type is wecom, and the text it
\* carries is the pipeline's final text (finalText of webhook.js, finalContent
\* of processMessage) with nothing added to it.
C15_RelayShape ==
  (variant \in {"webhook", "p000", "p005"} /\ relay.n > 0)
    => /\ relay.shape = IF webhookMap[key].type = "wecom" THEN "wecom" ELSE "raw"
       /\ relay.content = IF variant = "webhook" THEN beautifyAlerts(resolved) ELSE resolved

\* C16: in src/api/webhook.js, part_000 and part_004, a code whose name is
\* absent keeps its display: every 'label: code' span of the message with that
\* code stands unchanged in the resolved text, and the resolved text nowhere
\* shows the label followed by an empty name and the code in parentheses.
C16_AbsentNameUntouched ==
  LET span(p) == LabelCodeAt(messageBody, p, 1, 6)
      blankAt(q, code) ==
        /\ StartsWithAt(resolved, q, LABEL)
        /\ LET c == RunEnd(resolved, q + Len(LABEL), Space)
           IN /\ c <= Len(resolved)
              /\ resolved[c] \in Colons
              /\ StartsWithAt(resolved, RunEnd(resolved, c + 1, Space),
                              <<"(">> \o code \o <<")">>)
  IN (variant \in {"webhook", "p000", "p004"} /\ relay.n > 0)
       => \A i \in 1..Len(lk) :
            lk[i].name = NULL
              => /\ \A p \in 1..Len(messageBody) :
                      (span(p).ok /\ SubSeq(messageBody, span(p).cs, span(p).ce - 1) = lk[i].code)
                        => Includes(resolved, SubSeq(messageBody, p, span(p).ce - 1))
                 /\ \A q \in 1..Len(resolved) : ~blankAt(q, lk[i].code)

\* C17: in src/api/webhook.js, part_000 and part_005 every 'label: code'
\* occurrence of a message is found, and when the code has a name none of its
\* occurrences is left bare in the resolved text: each reads name(code).
C17_EveryOccurrence ==
  LET codeAt(t, p) == SubSeq(t, LabelCodeAt(t, p, 1, 6).cs, LabelCodeAt(t, p, 1, 6).ce - 1)
      found(c) == \E i \in 1..Len(lk) : lk[i].code = c
      bare(c) == \E q \in 1..Len(resolved) :
                   LabelCodeAt(resolved, q, 1, 6).ok /\ codeAt(resolved, q) = c
      rendered(n, c) == \/ Includes(resolved, n \o <<"(">> \o c \o <<")">>)
                        \/ Includes(resolved, n \o <<"fw(">> \o c \o <<"fw)">>)
  IN (variant \in {"webhook", "p000", "p005"} /\ relay.n > 0)
       => /\ \A p \in 1..Len(messageBody) :
               LabelCodeAt(messageBody, p, 1, 6).ok => found(codeAt(messageBody, p))
          /\ \A i \in 1..Len(lk) :
               lk[i].name # NULL => rendered(lk[i].name, lk[i].code) /\ ~bare(lk[i].code)

\* C18: in part_000, part_005 and src/api/webhook.js a one-line alert
\* 'label: CODE, rest' whose code has the name NAME comes out as two lines:
\* 'label:NAME(CODE)', then rest, the text after the code without the
\* separating comma.
C18_SingleLineLayout ==
  LET m == LabelCodeAt(messageBody, 1, 1, 6)
      afterComma(a) == IF a <= Len(messageBody) /\ messageBody[a] \in Commas
                       THEN RunEnd(messageBody, a + 1, Space) ELSE a
      rest == From(messageBody, afterComma(RunEnd(messageBody, m.ce, Space)))
  IN (variant \in {"webhook", "p000", "p005"} /\ relay.n > 0
        /\ m.ok /\ ~Includes(messageBody, NL)
        /\ Len(lk) = 1 /\ lk[1].name # NULL)
       => resolved = LABEL \o <<":">> \o lk[1].name \o <<"(">> \o lk[1].code \o <<")">>
                       \o NL \o rest

\* C19: the beautifier of src/api/webhook.js and of part_004 gives a non-blank
\* text for every non-blank text, and gives the text back unchanged when no
\* line of it holds a stock field.
C19_NeverBlank ==
  LET lines == SplitLines(fnIn)
      noStock == \A k \in 1..Len(lines) : Field(Trim(lines[k]), LABEL, StockStop) = NULL
  IN (pc = "done")
       => /\ Trim(fnIn) # <<>> => Trim(fnOut[1]) # <<>>
          /\ noStock => fnOut[1] = fnIn

\* webhook.js has beautified a label without value followed by free text: no
\* chunk holds a stock, the text came back as it was
C19_Witness ==
  /\ variant = "webhook" /\ pc = "done"
  /\ fnIn = LABEL \o <<":">> \o NL \o <<"h", "i">>
  /\ fnOut = <<fnIn>>

\* C20: the direction of a signal text is short when it holds a short-side
\* keyword, whatever else it holds; else long when it holds a long-side
\* keyword; else stop when it holds the stop-loss keyword; else neutral, as
\* for an absent or empty signal.
C20_DirectionPriority ==
  LET holds(ws) == \E k \in 1..Len(fnIn) : fnIn[k] \in ws
  IN (pc = "done")
       => fnOut = << IF holds(W_SHORT) THEN "short"
                     ELSE IF holds(W_LONG) THEN "long"
                     ELSE IF holds(W_STOP) THEN "stop"
                     ELSE "neutral" >>

\* a text with a long-side keyword followed by a short-side one is short
C20_Witness ==
  /\ pc = "done"
  /\ fnIn = << <<"b", "u", "y">>, SELL >>
  /\ fnOut = <<"short">>

\* C21: every request made to provider A or provider B for a code of the
\* Hong Kong market carries the extracted code padded with zeros on the left
\* to exactly five digits; for the other two markets it carries the code
\* unchanged.  (getStockNameFromSina of part_000 and part_005 does not pad,
\* but those files only extract codes of five or six digits.)
C21_HongKongPadding ==
  LET padded(c) == [k \in 1..5 |-> IF k <= 5 - Len(c) THEN "0" ELSE c[k - (5 - Len(c))]]
      expected(l) == IF l.prefix = "hk" THEN padded(l.code) ELSE l.code
  IN \A i \in 1..Len(lk) :
       /\ lk[i].nA > 0 => lk[i].reqA = expected(lk[i])
       /\ lk[i].nB > 0 => lk[i].reqB = expected(lk[i])

\* src/api/webhook.js has asked both providers for the code 941: each request
\* carried 00941
C21_Witness ==
  \E i \in 1..Len(lk) :
    /\ variant = "webhook" /\ lk[i].code = C_HK /\ lk[i].prefix = "hk"
    /\ lk[i].nA = 1 /\ lk[i].reqA = <<"0", "0", "9", "4", "1">>
    /\ lk[i].nB = 1 /\ lk[i].reqB = <<"0", "0", "9", "4", "1">>

\* C22: within one request the relay is sent at most once, a failed relay
\* included, and only when every lookup started for the request has
\* returned: no relay request exists while a lookup is still in flight.
C22_RelayOnceAfterLookups ==
  /\ relay.n <= 1
  /\ (relay.n > 0 \/ pc = "relay") => AllDone(lk)
  /\ (\E i \in 1..Len(lk) : lk[i].ph # "done") => relay = NoRelay

\* two lookups were started and have returned, the one relay request failed
\* and the request is over
C22_Witness ==
  /\ variant = "webhook" /\ Len(lk) = 2 /\ AllDone(lk)
  /\ relay.n = 1 /\ relay.outcome = "unreachable" /\ pc = "done"

\* C23: when the chunks delivered so far add up to more than the 1 MiB
\* limit, the read was rejected by the chunk that crossed the limit, the
\* request is over with one 500 response, and no lookup and no relay was
\* started for it; a body of at most 1 MiB is never rejected for its size,
\* and once it has been read the handler goes on to its lookups.
C23_BodyLimit ==
  LET RECURSIVE SumTo(_, _)
      SumTo(q, n) == IF n = 0 THEN 0 ELSE SumTo(q, n - 1) + q[n]
      arrived == Len(fnNames) - Len(fnIn)
      limit == 1048576
  IN /\ SumTo(fnNames, arrived) > limit =>
          /\ SumTo(fnNames, arrived - 1) <= limit
          /\ fnOut[2] = "too large"
          /\ pc = "done" /\ responses = <<[status |-> 500, success |-> FALSE]>>
          /\ lk = <<>> /\ relay = NoRelay
     /\ SumTo(fnNames, Len(fnNames)) <= limit =>
          /\ fnOut[2] # "too large"
          /\ (pc # "body" /\ fnOut[2] = "open") => (fnIn = <<>> /\ lk # <<>>)

\* src/api/webhook.js: the third chunk took the count one byte over the limit
C23_Witness ==
  /\ variant = "webhook" /\ fnNames = <<524288, 524288, 1>> /\ fnIn = <<>>
  /\ fnOut = <<1048577, "too large">>
  /\ pc = "done" /\ responses = <<[status |-> 500, success |-> FALSE]>>
  /\ lk = <<>> /\ relay = NoRelay

\* C24: in src/api/webhook.js the lookup placeholder neither escapes nor is
\* injected: the text resolveTargets returns holds no placeholder, and a
\* lookup is made only for a code that follows the label in the inbound
\* message; an inbound message that already holds a placeholder-shaped token
\* starts no lookup and comes out of resolveTargets unchanged.
C24_PlaceholderInternal ==
  LET followsLabel(code) ==
        \E j \in 1..Len(messageBody) :
          LET m == LabelCodeAt(messageBody, j, 1, 6)
          IN m.ok /\ SubSeq(messageBody, m.cs, m.ce - 1) = code
  IN variant = "webhook" =>
       /\ pc \in {"relay", "done"} /\ relay.n > 0 => placeholderCodesFrom(resolved, 1) = <<>>
       /\ \A i \in 1..Len(lk) : followsLabel(lk[i].code)
       /\ (relay.n > 0 /\ placeholderCodesFrom(messageBody, 1) # <<>>) => resolved = messageBody

\* C25: in part_002 every POST request gets past the preparation of its
\* content to the relay: one text message of at most 2048 characters is sent
\* and the caller gets 200 with ok: true; a 500 is answered only when the
\* relay call itself failed.
C25_ContentReachesRelay ==
  (variant = "p002" /\ method = "POST" /\ pc = "done") =>
    /\ relay.n = 1 /\ Len(relay.content) <= 2048
    /\ \/ responses = <<[status |-> 200, success |-> TRUE]>>
       \/ /\ responses = <<[status |-> 500, success |-> FALSE]>>
          /\ relay.outcome \in {"unreachable", "timeout", "broken"}

====
